---- MODULE Spec2Model ----
(***************************************************************************)
(* Combat core of The-Magician: EffectManager (combat/effects.py),         *)
(* DamageCalculator (combat/damage.py), CombatAction / ActionRegistry      *)
(* (combat/actions.py), Enemy / EnemyAI (combat/enemy.py), PlayerCharacter *)
(* (character/player.py) and Battle (combat/battle.py).                    *)
(*                                                                         *)
(* Probabilities are integers in percent (0.85 is 85); a draw of           *)
(* random.random() is an integer percent below 100; the variance draw of   *)
(* random.uniform(0.9, 1.1) is an integer percent; int(x) on a             *)
(* non-negative x is \div.                                                 *)
(***************************************************************************)
EXTENDS Integers, Sequences, FiniteSets, TLC

VARIABLES
    player,            \* Battle.player: PlayerCharacter (attributes, derived_stats)
    enemies,           \* Battle.enemies: sequence of Enemy
    turn_number,       \* Battle.turn_number
    result,            \* Battle.result
    player_defending,  \* Battle.player_defending
    ret,               \* the last Battle / CombatAction call and what it returned
    em,                \* a stand-alone EffectManager.active_effects
    emRet,             \* the last EffectManager call on em and what it returned
    loop,              \* GameLoop: where _handle_combat / _execute_enemy_turns stands
    round,             \* the Battle calls of the current round, in the order made
    calc,              \* a stand-alone DamageCalculator call: arguments and result
    files,             \* UserStorage.data_dir: file stem -> JSON content
    issued,            \* the number of tokens TokenGenerator has produced
    now,               \* datetime.utcnow(), in hours
    authRet,           \* the last UserStorage / AccountManager call and what it returned
    sm,                \* StateMachine: current_state, previous_state, state_data
    smRet,             \* the last StateMachine call and what it returned
    threads,           \* the calls running concurrently on one AccountManager
    lock               \* UserStorage._lock: its holder, 0 when free

vars == <<player, enemies, turn_number, result, player_defending, ret, em, emRet,
          loop, round, calc, files, issued, now, authRet, sm, smRet, threads, lock>>

loopVars == <<loop, round>>

authVars == <<files, issued, now, authRet>>

smVars == <<sm, smRet>>

threadVars == <<threads, lock>>

\* what the combat operations and the stand-alone EffectManager leave alone
otherVars == <<loopVars, calc, authVars, smVars, threadVars>>

battleVars == <<player, enemies, turn_number, result, player_defending, ret>>

(***************************************************************************)
(* Bounds of the model                                                     *)
(***************************************************************************)
MaxDuration == 3     \* durations offered to add_effect: 1..MaxDuration
MaxPotency == 2      \* potencies offered to add_effect: 1..MaxPotency
MaxTurn == 1         \* next_turn is offered while turn_number < MaxTurn

Max(a, b) == IF a >= b THEN a ELSE b
Min(a, b) == IF a <= b THEN a ELSE b

(***************************************************************************)
(* combat/effects.py                                                       *)
(***************************************************************************)
EffectType ==
    {"bleeding", "burning", "poisoned", "stunned", "frozen", "paralyzed",
     "weakened", "slowed", "confused", "strengthened", "shielded", "hastened",
     "regenerating"}

StatusEffect(t, d, p) == [effect_type |-> t, duration |-> d, potency |-> p]

\* active_effects is a dict keyed by effect type: the set of its values.
Types(active) == {e.effect_type : e \in active}

has_effect(active, t) == t \in Types(active)

get_effect(active, t) == CHOOSE e \in active : e.effect_type = t

\* active_effects[effect.effect_type] = effect
DictSet(active, effect) ==
    {e \in active : e.effect_type # effect.effect_type} \cup {effect}

\* del active_effects[t]
DictDel(active, t) == {e \in active : e.effect_type # t}

\* variant of the comparison that also accepts an equal potency
StrongerOrEqual(effect, existing) ==
    effect.potency >= existing.potency \/ effect.duration > existing.duration

\* the test of line 80: the incoming effect replaces the stored one
Stronger(effect, existing) ==
    effect.potency > existing.potency \/ effect.duration > existing.duration

\* add_effect: the table after the call
add_effect(active, effect) ==
    IF has_effect(active, effect.effect_type)
    THEN IF Stronger(effect, get_effect(active, effect.effect_type))
         THEN DictSet(active, effect)
         ELSE active
    ELSE DictSet(active, effect)

\* add_effect: the value returned
add_effect_ret(active, effect) ==
    IF has_effect(active, effect.effect_type)
    THEN Stronger(effect, get_effect(active, effect.effect_type))
    ELSE TRUE

remove_effect(active, t) == IF has_effect(active, t) THEN DictDel(active, t) ELSE active

remove_effect_ret(active, t) == has_effect(active, t)

DotTypes == {"bleeding", "burning", "poisoned"}

\* tick_effects: the results dict, as the set of its (type, delta) items
tick_results(active) ==
    {[effect_type |-> e.effect_type, delta |-> e.potency] :
        e \in {x \in active : x.effect_type \in DotTypes}}
    \cup
    {[effect_type |-> e.effect_type, delta |-> 0 - e.potency] :
        e \in {x \in active : x.effect_type = "regenerating"}}

\* variant of the expiry test that keeps an effect at duration 0
ExpiredBelowZero(duration) == duration < 0

\* the test of line 130, on the decremented duration
Expired(duration) == duration <= 0

\* variant: the durations are lowered by 2
tick_effects_by_two(active) ==
    {e \in {StatusEffect(x.effect_type, x.duration - 2, x.potency) : x \in active} :
        ~Expired(e.duration)}

\* tick_effects: the table after the call
tick_effects(active) ==
    {e \in {StatusEffect(x.effect_type, x.duration - 1, x.potency) : x \in active} :
        ~Expired(e.duration)}

is_incapacitated(active) ==
    \E t \in {"stunned", "frozen", "paralyzed"} : has_effect(active, t)

\* get_damage_modifier, in quarters (1.0 is 4)
get_damage_modifier(active) ==
    LET s == IF has_effect(active, "strengthened") THEN 3 ELSE 2
        w == IF has_effect(active, "weakened") THEN 1 ELSE 2
    IN  s * w

\* get_defense_modifier, in percent (1.0 is 100)
get_defense_modifier(active) ==
    IF has_effect(active, "shielded")
    THEN 100 + get_effect(active, "shielded").potency
    ELSE 100

clear_all(active) == {}

\* the factories of lines 206-233 with their default arguments
create_bleeding == StatusEffect("bleeding", 3, 5)
create_stun == StatusEffect("stunned", 1, 0)
create_shield == StatusEffect("shielded", 3, 30)
create_regeneration == StatusEffect("regenerating", 3, 10)

(***************************************************************************)
(* The stand-alone EffectManager: calls with arguments from bounded sets   *)
(***************************************************************************)
EMTypes == {"bleeding", "stunned", "regenerating"}

EMEffects ==
    {StatusEffect(t, d, p) : t \in EMTypes, d \in 1..MaxDuration, p \in 1..MaxPotency}

NoEffect == StatusEffect("none", 0, 0)

EMCall(op, effect, t, value, results) ==
    [op |-> op, effect |-> effect, effect_type |-> t, value |-> value,
     results |-> results]

EMAdd ==
    \E effect \in EMEffects :
        /\ em' = add_effect(em, effect)
        /\ emRet' = EMCall("add_effect", effect, effect.effect_type,
                           add_effect_ret(em, effect), {})
        /\ UNCHANGED <<battleVars, otherVars>>

EMRemove ==
    \E t \in EMTypes :
        /\ em' = remove_effect(em, t)
        /\ emRet' = EMCall("remove_effect", NoEffect, t, remove_effect_ret(em, t), {})
        /\ UNCHANGED <<battleVars, otherVars>>

EMTick ==
    /\ em' = tick_effects(em)
    /\ emRet' = EMCall("tick_effects", NoEffect, "none", TRUE, tick_results(em))
    /\ UNCHANGED <<battleVars, otherVars>>

EMClear ==
    /\ em' = clear_all(em)
    /\ emRet' = EMCall("clear_all", NoEffect, "none", TRUE, {})
    /\ UNCHANGED <<battleVars, otherVars>>

EMInit ==
    /\ em = {}
    /\ emRet = EMCall("init", NoEffect, "none", TRUE, {})

(***************************************************************************)
(* combat/damage.py                                                        *)
(***************************************************************************)
\* The draws offered for random.random(), in percent
Draws == {0, 20, 60, 95}

\* The draws offered for random.uniform(0.9, 1.1), in percent
Variances == {100}

\* The draws offered for random.uniform(0.85, 1.15), in percent
HealVariances == {100}

\* variant: the hit chance capped above only
_calculate_hit_chance_capped(attacker_stat, defender_defense) ==
    Min(95, 85 + 2 * (attacker_stat - defender_defense))

_calculate_hit_chance(attacker_stat, defender_defense) ==
    Max(10, Min(95, 85 + 2 * (attacker_stat - defender_defense)))

_calculate_crit_chance(primary_stat) ==
    Min(50, 5 + Max(0, primary_stat - 10))

\* damage * (1 - defense / (defense + 100)), truncated, at least 1. The code
\* computes this in floating point; for the attributes of Players and
\* Encounters below the truncated float equals the integer quotient.
_apply_defense(damage, defense) ==
    Max(1, (damage * 100) \div (defense + 100))

\* variant: the damage returned as computed, without a floor
FloorDamageNone(damage) == damage

\* damage after the floor of line 92
FloorDamage(damage) == Max(1, damage)

calculate_physical_damage(attacker_strength, defender_defense, base_damage, attack_type, hit_draw, crit_draw, variance) ==
    LET is_hit == hit_draw < _calculate_hit_chance(attacker_strength, defender_defense)
        is_critical == crit_draw < _calculate_crit_chance(attacker_strength)
        typed == CASE attack_type = "light" -> (base_damage * 7) \div 10
                   [] attack_type = "heavy" -> (base_damage * 13) \div 10
                   [] OTHER -> base_damage
        str_bonus == Max(0, (attacker_strength - 10) \div 2)
        reduced == _apply_defense(typed + str_bonus, defender_defense)
        crit == IF is_critical THEN reduced * 2 ELSE reduced
        varied == (crit * variance) \div 100
    IN  IF ~is_hit
        THEN [damage |-> 0, hit |-> FALSE, critical |-> FALSE]
        ELSE [damage |-> FloorDamage(varied), hit |-> TRUE, critical |-> is_critical]

calculate_magical_damage(caster_intelligence, caster_willpower, defender_willpower, base_damage, crit_draw, variance) ==
    LET spell_bonus == Max(0, (caster_intelligence + caster_willpower - 20) \div 3)
        resistance == Max(0, (defender_willpower - 10) \div 2)
        resisted == Max(1, base_damage + spell_bonus - resistance)
        is_critical == crit_draw < _calculate_crit_chance(caster_intelligence)
        crit == IF is_critical THEN resisted * 2 ELSE resisted
        varied == (crit * variance) \div 100
    IN  [damage |-> Max(1, varied), hit |-> TRUE, critical |-> is_critical]

calculate_healing(caster_willpower, base_healing, variance) ==
    LET will_bonus == Max(0, (caster_willpower - 10) \div 2)
    IN  Max(1, ((base_healing + will_bonus) * variance) \div 100)

calculate_flee_chance(player_agility, enemy_agility) ==
    Max(20, Min(90, 50 + 5 * (player_agility - enemy_agility)))

(***************************************************************************)
(* character/stats.py                                                      *)
(***************************************************************************)
calculate_max_health(constitution, level) == 50 + constitution * 5 + (level - 1) * 10

calculate_max_mana(willpower, level) == 30 + willpower * 3 + (level - 1) * 5

calculate_max_stamina(constitution, agility, level) ==
    100 + constitution * 3 + agility * 2 + (level - 1) * 5

calculate_defense(agility, constitution) == agility + (constitution \div 3)

(***************************************************************************)
(* character/progression.py: AbilitySystem                                 *)
(***************************************************************************)
TOMAS_ABILITIES ==
    {<<2, "Power Strike">>, <<3, "Shield Bash">>, <<5, "Whirlwind Attack">>,
     <<7, "Battle Cry">>, <<10, "Berserk Rage">>, <<12, "Disarm">>,
     <<15, "Second Wind">>, <<18, "Weapon Master">>, <<20, "Valheru's Might">>,
     <<25, "Dragon's Fury">>, <<30, "Ashen-Shugar's Legacy">>}

PUG_ABILITIES ==
    {<<1, "Minor Fireball">>, <<1, "Light">>, <<2, "Shield">>, <<3, "Heal">>,
     <<5, "Lightning Bolt">>, <<7, "Invisibility">>, <<10, "Greater Fireball">>,
     <<12, "Telekinesis">>, <<15, "Dispel Magic">>, <<18, "Rift Magic">>,
     <<20, "Master's Power">>, <<25, "Time Stop">>, <<30, "Milamber's Fury">>}

get_abilities_for_level(path, level) ==
    LET ability_tree == IF path = "tomas" THEN TOMAS_ABILITIES ELSE PUG_ABILITIES
    IN  {a[2] : a \in {x \in ability_tree : x[1] <= level}}

(***************************************************************************)
(* character/player.py                                                     *)
(***************************************************************************)
\* variant of take_damage without the floor at 0
take_damage_unclamped(p, amount) ==
    [p EXCEPT !.current_health = p.current_health - amount]

take_damage(p, amount) ==
    [p EXCEPT !.current_health = Max(0, p.current_health - amount)]

\* PlayerCharacter.is_alive
player_is_alive(p) == p.current_health > 0

heal(p, amount) ==
    [p EXCEPT !.current_health = Min(p.max_health, p.current_health + amount)]

\* use_mana: the value returned
use_mana_ret(p, amount) == p.current_mana >= amount

\* use_mana: the player after the call
use_mana(p, amount) ==
    IF p.current_mana >= amount
    THEN [p EXCEPT !.current_mana = p.current_mana - amount]
    ELSE p

restore_mana(p, amount) ==
    [p EXCEPT !.current_mana = Min(p.max_mana, p.current_mana + amount)]

\* use_stamina: the value returned
use_stamina_ret(p, amount) == p.current_stamina >= amount

\* variant of use_stamina that takes what is left when the amount is not there
use_stamina_partial(p, amount) ==
    [p EXCEPT !.current_stamina = Max(0, p.current_stamina - amount)]

\* use_stamina: the player after the call
use_stamina(p, amount) ==
    IF p.current_stamina >= amount
    THEN [p EXCEPT !.current_stamina = p.current_stamina - amount]
    ELSE p

restore_stamina(p, amount) ==
    [p EXCEPT !.current_stamina = Min(p.max_stamina, p.current_stamina + amount)]

has_ability(p, ability_name) == ability_name \in p.abilities

player_defense(p) == calculate_defense(p.agility, p.constitution)

(***************************************************************************)
(* combat/actions.py                                                       *)
(***************************************************************************)
\* A CombatAction; ability is the name is_unlocked asks has_ability for,
\* "" when the action is always unlocked.
CombatAction(name, stamina_cost, mana_cost, requires_target, ability) ==
    [name |-> name, stamina_cost |-> stamina_cost, mana_cost |-> mana_cost,
     requires_target |-> requires_target, ability |-> ability]

warrior_actions ==
    << CombatAction("Light Attack", 5, 0, TRUE, ""),
       CombatAction("Attack", 10, 0, TRUE, ""),
       CombatAction("Heavy Attack", 20, 0, TRUE, ""),
       CombatAction("Power Strike", 25, 0, TRUE, "Power Strike"),
       CombatAction("Shield Bash", 20, 0, TRUE, "Shield Bash"),
       CombatAction("Whirlwind Attack", 40, 0, FALSE, "Whirlwind Attack"),
       CombatAction("Battle Cry", 15, 0, FALSE, "Battle Cry"),
       CombatAction("Defend", 5, 0, FALSE, ""),
       CombatAction("Berserk Rage", 50, 0, FALSE, "Berserk Rage") >>

mage_actions ==
    << CombatAction("Staff Attack", 8, 0, TRUE, ""),
       CombatAction("Minor Fireball", 0, 10, TRUE, "Minor Fireball"),
       CombatAction("Shield", 0, 15, FALSE, "Shield"),
       CombatAction("Heal", 0, 20, FALSE, "Heal"),
       CombatAction("Lightning Bolt", 0, 25, TRUE, "Lightning Bolt"),
       CombatAction("Greater Fireball", 0, 35, TRUE, "Greater Fireball"),
       CombatAction("Invisibility", 0, 30, FALSE, "Invisibility"),
       CombatAction("Rift Magic", 0, 60, TRUE, "Rift Magic") >>

is_unlocked(action, p) == action.ability = "" \/ has_ability(p, action.ability)

\* str.lower() on the names the model uses
Lower(name) ==
    CASE name = "Light Attack" -> "light attack"
      [] name = "Attack" -> "attack"
      [] name = "ATTACK" -> "attack"
      [] name = "Heavy Attack" -> "heavy attack"
      [] name = "Power Strike" -> "power strike"
      [] name = "Shield Bash" -> "shield bash"
      [] name = "Whirlwind Attack" -> "whirlwind attack"
      [] name = "Battle Cry" -> "battle cry"
      [] name = "Defend" -> "defend"
      [] name = "Berserk Rage" -> "berserk rage"
      [] name = "Staff Attack" -> "staff attack"
      [] name = "Minor Fireball" -> "minor fireball"
      [] name = "Shield" -> "shield"
      [] name = "Heal" -> "heal"
      [] name = "Lightning Bolt" -> "lightning bolt"
      [] name = "Greater Fireball" -> "greater fireball"
      [] name = "Invisibility" -> "invisibility"
      [] name = "Rift Magic" -> "rift magic"
      [] name = "Alice" -> "alice"
      [] name = "A@X.io" -> "a@x.io"
      [] OTHER -> name

get_available_actions(p) ==
    LET actions == IF p.path = "tomas" THEN warrior_actions ELSE mage_actions
    IN  SelectSeq(actions, LAMBDA a : is_unlocked(a, p))

NoAction == CombatAction("", 0, 0, FALSE, "")

\* get_action_by_name: the first available action of that name, NoAction for None
get_action_by_name(name, p) ==
    LET available == get_available_actions(p)
        hits == {i \in 1..Len(available) : Lower(available[i].name) = Lower(name)}
    IN  IF hits = {} THEN NoAction
        ELSE available[CHOOSE i \in hits : \A j \in hits : i <= j]

\* can_use: the player after the call (use_stamina and use_mana debit)
can_use(action, p) ==
    IF ~is_unlocked(action, p) THEN p
    ELSE IF action.stamina_cost > 0 /\ ~use_stamina_ret(p, action.stamina_cost) THEN p
    ELSE LET q == IF action.stamina_cost > 0 THEN use_stamina(p, action.stamina_cost) ELSE p
         IN  IF action.mana_cost > 0 THEN use_mana(q, action.mana_cost) ELSE q

\* can_use: the reason returned, "" with True
can_use_reason(action, p) ==
    IF ~is_unlocked(action, p) THEN "Ability not unlocked"
    ELSE IF action.stamina_cost > 0 /\ ~use_stamina_ret(p, action.stamina_cost)
         THEN "Not enough stamina"
    ELSE LET q == IF action.stamina_cost > 0 THEN use_stamina(p, action.stamina_cost) ELSE p
         IN  IF action.mana_cost > 0 /\ ~use_mana_ret(q, action.mana_cost)
             THEN "Not enough mana"
             ELSE ""

(***************************************************************************)
(* combat/enemy.py                                                         *)
(***************************************************************************)
\* Enemy.__init__: a fresh enemy
Enemy(name, level, strength, constitution, agility, intelligence, willpower, base_damage, has_abilities) ==
    [name |-> name, level |-> level, strength |-> strength,
     constitution |-> constitution, agility |-> agility,
     intelligence |-> intelligence, willpower |-> willpower,
     base_damage |-> base_damage, has_abilities |-> has_abilities,
     max_health |-> calculate_max_health(constitution, level),
     current_health |-> calculate_max_health(constitution, level),
     xp_reward |-> 50 * level, gold_reward |-> 10 * level,
     active_effects |-> {}, is_defending |-> FALSE]

\* variant: a defeated enemy still counts as alive
is_alive_always(e) == e.current_health >= 0

\* Enemy.is_alive
is_alive(e) == e.current_health > 0

\* Enemy.take_damage: int(amount / defense_mod)
enemy_take_damage(e, amount) ==
    LET modified_damage == (amount * 100) \div get_defense_modifier(e.active_effects)
    IN  [e EXCEPT !.current_health = Max(0, e.current_health - modified_damage)]

\* Enemy.heal
enemy_heal(e, amount) ==
    [e EXCEPT !.current_health = Min(e.max_health, e.current_health + amount)]

enemy_defense(e) == calculate_defense(e.agility, e.constitution)

\* EnemyAI.aggression, in percent
aggression == 70

\* enemy_health_percent < 0.3 (line 147)
LowHealth(e) == e.current_health * 100 < 30 * e.max_health

\* variant: the special branch is taken without looking at the abilities
choose_action_any_special(incapacitated, low_health, has_abilities, low_draw, special_draw, pick, aggr_draw, attack_roll) ==
    IF incapacitated THEN "incapacitated"
    ELSE IF low_health /\ low_draw < 40 THEN "defend"
    ELSE IF special_draw < 30
         THEN <<"special", "attack", "attack">>[pick]
    ELSE IF aggr_draw < aggression
         THEN IF attack_roll < 10 THEN "heavy_attack"
              ELSE IF attack_roll < 30 THEN "light_attack"
              ELSE "attack"
    ELSE "defend"

\* EnemyAI.choose_action on what it reads of the enemy (incapacitated, low health,
\* has abilities) and on its draws; pick is the index random.choice takes
choose_action(incapacitated, low_health, has_abilities, low_draw, special_draw, pick, aggr_draw, attack_roll) ==
    IF incapacitated THEN "incapacitated"
    ELSE IF low_health /\ low_draw < 40 THEN "defend"
    ELSE IF has_abilities /\ special_draw < 30
         THEN <<"special", "attack", "attack">>[pick]
    ELSE IF aggr_draw < aggression
         THEN IF attack_roll < 10 THEN "heavy_attack"
              ELSE IF attack_roll < 30 THEN "light_attack"
              ELSE "attack"
    ELSE "defend"

\* every action choose_action can return for the draws offered
ChoiceTable[incapacitated \in BOOLEAN, low_health \in BOOLEAN, has_abilities \in BOOLEAN] ==
    {choose_action(incapacitated, low_health, has_abilities, d1, d2, k, d3, d4) :
        d1 \in Draws, d2 \in Draws, k \in 1..3, d3 \in Draws, d4 \in Draws}

ChosenActions(e) ==
    ChoiceTable[is_incapacitated(e.active_effects), LowHealth(e), e.has_abilities]

EnemyAttackType(action) ==
    CASE action = "light_attack" -> "light"
      [] action = "heavy_attack" -> "heavy"
      [] OTHER -> "normal"

\* EnemyAI.execute_action: the outcomes (action, damage, hit) for the draws offered
ExecuteOutcomes(e, action, target_defense) ==
    CASE action = "incapacitated" ->
            {[action |-> action, damage |-> 0, hit |-> TRUE]}
      [] action = "defend" ->
            {[action |-> action, damage |-> 0, hit |-> TRUE]}
      [] action \in {"attack", "light_attack", "heavy_attack"} ->
            {LET o == calculate_physical_damage(
                        e.strength, target_defense,
                        (e.base_damage * get_damage_modifier(e.active_effects)) \div 4,
                        EnemyAttackType(action), hd, cd, v)
             IN  [action |-> action, damage |-> o.damage, hit |-> o.hit] :
                hd \in Draws, cd \in Draws, v \in Variances}
      [] action = "special" ->
            {LET o == calculate_magical_damage(
                        e.intelligence, e.willpower, 10,
                        (e.base_damage * 3) \div 2, cd, v)
             IN  [action |-> action, damage |-> o.damage, hit |-> TRUE] :
                cd \in Draws, v \in Variances}
      [] OTHER -> {[action |-> "unknown", damage |-> 0, hit |-> TRUE]}

(***************************************************************************)
(* combat/battle.py                                                        *)
(***************************************************************************)
RECURSIVE SumOver(_, _)
\* sum(f[x] for x in S)
SumOver(f, S) ==
    IF S = {} THEN 0
    ELSE LET x == CHOOSE y \in S : TRUE IN f[x] + SumOver(f, S \ {x})

Indices == 1..Len(enemies)

Living(es) == {i \in 1..Len(es) : is_alive(es[i])}

\* What a call returned; target is the index the call was given where the call
\* read it. status: "ok" a result dict, "error" a dict with 'error',
\* "skipped" a dict with 'skipped', "raised" an exception, "none" nothing returned.
Ret(op, target, status, detail, damage, hit, effect, draw, battle_result, xp, gold) ==
    [op |-> op, target |-> target, status |-> status,
     detail |-> detail, damage |-> damage, hit |-> hit, effect |-> effect,
     draw |-> draw, battle_result |-> battle_result, xp |-> xp, gold |-> gold]

ErrorRet(op, target, msg) ==
    Ret(op, target, "error", msg, 0, FALSE, "", 0, "", 0, 0)

\* a call that ended in an exception; player_turn keeps in effect the name of
\* the action it was executing
RaisedRet(op, target, exc) ==
    Ret(op, target, "raised", exc, 0, FALSE, "", 0, "", 0, 0)

\* _calculate_rewards
_calculate_rewards(es) ==
    [xp |-> SumOver([i \in 1..Len(es) |-> es[i].xp_reward], 1..Len(es)),
     gold |-> SumOver([i \in 1..Len(es) |-> es[i].gold_reward], 1..Len(es))]

\* variant of the victory test that is satisfied by one defeated enemy
AnyDefeated(es) == \E i \in 1..Len(es) : ~is_alive(es[i])

\* the test of line 124
AllDefeated(es) == \A i \in 1..Len(es) : ~is_alive(es[i])

PhysicalNames == {"Light Attack", "Attack", "Heavy Attack", "Staff Attack"}

PlayerAttackType(name) ==
    CASE name = "Light Attack" -> "light"
      [] name = "Heavy Attack" -> "heavy"
      [] OTHER -> "normal"

SpellBase(name) ==
    CASE name = "Minor Fireball" -> 20
      [] name = "Greater Fireball" -> 40
      [] OTHER -> 35

\* what _execute_player_action leaves: the player, the target, the defending flag
\* and the result dict's damage, hit and effects; raised when it ends in an exception;
\* draw is the extra draw of a secondary effect where one was taken, 0 otherwise
Outcome(p, t, defending, damage, hit, effect, raised) ==
    [player |-> p, target |-> t, defending |-> defending, damage |-> damage,
     hit |-> hit, effect |-> effect, raised |-> raised, draw |-> 0]

\* variant: the secondary effect is drawn for and added after a miss too
PlayerStrikeOnMiss(p, t, defending, base_damage, attack_type, effect, chance) ==
    {LET o == calculate_physical_damage(p.strength, enemy_defense(t), base_damage,
                                        attack_type, hd, cd, v)
         hurt == IF o.hit THEN enemy_take_damage(t, o.damage) ELSE t
     IN  IF chance > 0 /\ ed < chance
         THEN [Outcome(p, [hurt EXCEPT !.active_effects = add_effect(@, effect)],
                       defending, o.damage, o.hit, effect.effect_type, FALSE)
                  EXCEPT !.draw = ed]
         ELSE Outcome(p, hurt, defending, o.damage, o.hit, "", FALSE) :
        hd \in Draws, cd \in Draws, v \in Variances, ed \in Draws}

\* a physical attack of the player on target t, with a secondary effect added on a
\* hit when the extra draw is below chance (chance 0: no secondary effect, no draw)
PlayerStrike(p, t, defending, base_damage, attack_type, effect, chance) ==
    {LET o == calculate_physical_damage(p.strength, enemy_defense(t), base_damage,
                                        attack_type, hd, cd, v)
         hurt == enemy_take_damage(t, o.damage)
     IN  IF ~o.hit THEN Outcome(p, t, defending, 0, FALSE, "", FALSE)
         ELSE IF chance = 0 THEN Outcome(p, hurt, defending, o.damage, TRUE, "", FALSE)
         ELSE IF ed < chance
              THEN [Outcome(p, [hurt EXCEPT !.active_effects = add_effect(@, effect)],
                            defending, o.damage, TRUE, effect.effect_type, FALSE)
                       EXCEPT !.draw = ed]
              ELSE [Outcome(p, hurt, defending, o.damage, TRUE, "", FALSE)
                       EXCEPT !.draw = ed] :
        hd \in Draws, cd \in Draws, v \in Variances, ed \in Draws}

\* _execute_player_action: every outcome for the draws offered; p is the player
\* after can_use, t the target (any enemy when the action takes none)
_execute_player_action(action, p, t, defending) ==
    CASE action.name \in PhysicalNames ->
            PlayerStrike(p, t, defending, 15, PlayerAttackType(action.name), NoEffect, 0)
      [] action.name = "Power Strike" ->
            PlayerStrike(p, t, defending, 25, "heavy", create_bleeding, 30)
      [] action.name = "Shield Bash" ->
            PlayerStrike(p, t, defending, 10, "normal", create_stun, 50)
      [] action.name = "Defend" ->
            {Outcome(p, t, TRUE, 0, TRUE, "", FALSE)}
      [] action.name \in {"Minor Fireball", "Greater Fireball", "Lightning Bolt"} ->
            {LET o == calculate_magical_damage(p.intelligence, p.willpower, t.willpower,
                                               SpellBase(action.name), cd, v)
             IN  Outcome(p, enemy_take_damage(t, o.damage), defending, o.damage, TRUE,
                         "", FALSE) :
                cd \in Draws, v \in Variances}
      [] action.name = "Heal" ->
            {Outcome(heal(p, calculate_healing(p.willpower, 30, v)), t, defending, 0,
                     TRUE, "", FALSE) : v \in HealVariances}
      [] action.name = "Shield" ->
            \* PlayerCharacter has no effect_manager: line 269 raises AttributeError
            {Outcome(p, t, defending, 0, TRUE, "", TRUE)}
      [] OTHER ->
            {Outcome(p, t, defending, 0, TRUE, "", FALSE)}

\* The action names and target indices offered to player_turn
ActionNames ==
    {"Attack", "ATTACK", "Power Strike", "Shield Bash", "Defend",
     "Minor Fireball", "Heal", "Shield"}

TargetIndices == -1..Len(enemies)

\* The target indices offered with an action name: callers leave the default 0
\* with the actions that take no target
TargetsFor(action_name) ==
    IF action_name \in {"Defend", "Heal", "Shield"} THEN {0} ELSE TargetIndices

player_turn(action_name, target_index) ==
    LET action == get_action_by_name(action_name, player)
        p == can_use(action, player)
        reason == can_use_reason(action, player)
    IN
    IF result # "ongoing" THEN
        /\ ret' = ErrorRet("player_turn", 0, "Battle is already over")
        /\ UNCHANGED <<player, enemies, turn_number, result, player_defending>>
    ELSE IF action = NoAction THEN
        /\ ret' = ErrorRet("player_turn", 0, "Unknown or unavailable action")
        /\ UNCHANGED <<player, enemies, turn_number, result, player_defending>>
    ELSE IF reason # "" THEN
        /\ player' = p
        /\ ret' = ErrorRet("player_turn", 0, reason)
        /\ UNCHANGED <<enemies, turn_number, result, player_defending>>
    ELSE IF action.requires_target
            /\ (target_index >= Len(enemies) \/ target_index < 0) THEN
        /\ player' = p
        /\ ret' = ErrorRet("player_turn", target_index, "Invalid target")
        /\ UNCHANGED <<enemies, turn_number, result, player_defending>>
    ELSE
        LET k == IF action.requires_target THEN target_index + 1 ELSE 1
        IN  \E o \in _execute_player_action(action, p, enemies[k], player_defending) :
                LET es == IF action.requires_target
                          THEN [enemies EXCEPT ![k] = o.target]
                          ELSE enemies
                    won == AllDefeated(es)
                    rewards == _calculate_rewards(es)
                IN  /\ player' = o.player
                    /\ enemies' = es
                    /\ player_defending' = o.defending
                    /\ turn_number' = turn_number
                    /\ IF o.raised
                       THEN /\ result' = result
                            /\ ret' = [RaisedRet("player_turn", 0, "AttributeError")
                                          EXCEPT !.effect = action.name]
                       ELSE /\ result' = IF won THEN "victory" ELSE result
                            /\ ret' = Ret("player_turn",
                                          IF action.requires_target THEN target_index ELSE 0,
                                          "ok",
                                          action.name, o.damage, o.hit, o.effect, o.draw,
                                          IF won THEN "victory" ELSE "",
                                          IF won THEN rewards.xp ELSE 0,
                                          IF won THEN rewards.gold ELSE 0)

\* tick_effects' results summed over the positive deltas (line 296)
effect_damage(active) ==
    LET pos == {r \in tick_results(active) : r.delta > 0}
    IN  SumOver([r \in pos |-> r.delta], pos)

\* the enemy after lines 295-299: effects ticked, their damage taken
AfterTick(e) ==
    LET ticked == [e EXCEPT !.active_effects = tick_effects(@)]
    IN  IF effect_damage(e.active_effects) > 0
        THEN enemy_take_damage(ticked, effect_damage(e.active_effects))
        ELSE ticked

\* variant: the damage is taken in full also when defending
DamageToPlayerInFull(damage, hit, defending) == IF damage > 0 /\ hit THEN damage ELSE 0

\* the damage the player takes from an enemy's result (lines 318-325)
DamageToPlayer(damage, hit, defending) ==
    IF damage > 0 /\ hit
    THEN IF defending THEN damage \div 2 ELSE damage
    ELSE 0

\* The enemy indices offered to enemy_turn (Python indexes from 0, and from the
\* end with a negative index); Len(enemies) is past the end
EnemyIndices == 0..Len(enemies)

enemy_turn(enemy_index) ==
    IF enemy_index >= Len(enemies) \/ enemy_index < 0 - Len(enemies) THEN
        /\ ret' = RaisedRet("enemy_turn", enemy_index, "IndexError")
        /\ UNCHANGED <<player, enemies, turn_number, result, player_defending>>
    ELSE
        LET k == IF enemy_index >= 0 THEN enemy_index + 1
                 ELSE Len(enemies) + enemy_index + 1
            enemy == enemies[k]
            ticked == AfterTick(enemy)
        IN
        IF ~is_alive(enemy) THEN
            /\ ret' = Ret("enemy_turn", enemy_index, "skipped", "Enemy is defeated",
                          0, FALSE, "", 0, "", 0, 0)
            /\ UNCHANGED <<player, enemies, turn_number, result, player_defending>>
        ELSE IF is_incapacitated(ticked.active_effects) THEN
            /\ enemies' = [enemies EXCEPT ![k] = ticked]
            /\ ret' = Ret("enemy_turn", enemy_index, "ok", "incapacitated",
                          0, FALSE, "", 0, "", 0, 0)
            /\ UNCHANGED <<player, turn_number, result, player_defending>>
        ELSE
            \E action \in ChosenActions(ticked) :
                \E o \in ExecuteOutcomes(ticked, action, player_defense(player)) :
                    /\ enemies' = [enemies EXCEPT ![k] =
                                     IF action = "defend"
                                     THEN [ticked EXCEPT !.is_defending = TRUE]
                                     ELSE ticked]
                    /\ player' = take_damage(player,
                                     DamageToPlayer(o.damage, o.hit, player_defending))
                    /\ ret' = Ret("enemy_turn", enemy_index, "ok", o.action,
                                  o.damage, o.hit, "", 0, "", 0, 0)
                    /\ UNCHANGED <<turn_number, result, player_defending>>

\* variant: the mean is taken over all the enemies, the defeated included
avg_all_agi(es) ==
    SumOver([i \in 1..Len(es) |-> es[i].agility], 1..Len(es)) \div Len(es)

\* int(avg_enemy_agi) of lines 337-341, over the living enemies
avg_enemy_agi(es) ==
    SumOver([i \in Living(es) |-> es[i].agility], Living(es)) \div Cardinality(Living(es))

\* variant of the flee test that also succeeds on a draw equal to the chance
FleeSucceedsOnEqual(draw, flee_chance) == draw <= flee_chance

\* the test of line 344
FleeSucceeds(draw, flee_chance) == draw < flee_chance

\* attempt_flee with random.random() taken from draws
attempt_flee_with(draws) ==
    IF Living(enemies) = {} THEN
        /\ ret' = RaisedRet("attempt_flee", 0, "ZeroDivisionError")
        /\ UNCHANGED <<player, enemies, turn_number, result, player_defending>>
    ELSE
        \E draw \in draws :
            LET flee_chance == calculate_flee_chance(player.agility,
                                                     avg_enemy_agi(enemies))
                fled == FleeSucceeds(draw, flee_chance)
            IN  /\ result' = IF fled THEN "fled" ELSE result
                /\ ret' = Ret("attempt_flee", 0, "ok",
                              IF fled THEN "success" ELSE "failed",
                              0, FALSE, "", draw, IF fled THEN "fled" ELSE "", 0, 0)
                /\ UNCHANGED <<player, enemies, turn_number, player_defending>>

attempt_flee == attempt_flee_with(Draws)

\* variant of next_turn that leaves the defending flag as it is
next_turn_keeps_flag ==
    /\ turn_number < MaxTurn
    /\ turn_number' = turn_number + 1
    /\ ret' = Ret("next_turn", 0, "none", "", 0, FALSE, "", 0, "", 0, 0)
    /\ UNCHANGED <<player, enemies, result, player_defending>>

next_turn ==
    /\ turn_number < MaxTurn
    /\ turn_number' = turn_number + 1
    /\ player_defending' = FALSE
    /\ ret' = Ret("next_turn", 0, "none", "", 0, FALSE, "", 0, "", 0, 0)
    /\ UNCHANGED <<player, enemies, result>>

(***************************************************************************)
(* engine/game_loop.py: the defeat check of _execute_enemy_turns, which    *)
(* follows an enemy turn that was not skipped in an ongoing battle         *)
(***************************************************************************)
\* variant: the check finds the player dead and leaves the result as it is
GameLoopDefeatKeepsResult ==
    /\ result = "ongoing"
    /\ ret.op = "enemy_turn" /\ ret.status = "ok"
    /\ player.current_health <= 0
    /\ result' = result
    /\ ret' = Ret("defeat_check", 0, "none", "", 0, FALSE, "", 0, "", 0, 0)
    /\ UNCHANGED <<player, enemies, turn_number, player_defending>>

GameLoopDefeat ==
    /\ result = "ongoing"
    /\ ret.op = "enemy_turn" /\ ret.status = "ok"
    /\ player.current_health <= 0
    /\ result' = "defeat"
    /\ ret' = Ret("defeat_check", 0, "none", "", 0, FALSE, "", 0, "", 0, 0)
    /\ UNCHANGED <<player, enemies, turn_number, player_defending>>

(***************************************************************************)
(* A legality probe: CombatAction.can_use called on its own                *)
(***************************************************************************)
AllActions ==
    {warrior_actions[i] : i \in 1..Len(warrior_actions)}
    \cup {mage_actions[i] : i \in 1..Len(mage_actions)}

CanUseProbe ==
    \E action \in AllActions :
        /\ player' = can_use(action, player)
        /\ ret' = Ret("can_use", 0,
                      IF can_use_reason(action, player) = "" THEN "ok" ELSE "error",
                      can_use_reason(action, player), 0, FALSE, "", 0, "", 0, 0)
        /\ UNCHANGED <<enemies, turn_number, result, player_defending>>

(***************************************************************************)
(* The battle at construction                                              *)
(***************************************************************************)
PlayerLevel == 3
StartHealth == 6      \* the player's health when the battle begins
StartStamina == 25    \* the player's stamina when the battle begins
StartMana == 20       \* the player's mana when the battle begins

\* PlayerCharacter.__init__, with the health, mana and stamina the player brings
PlayerCharacter(path, strength, constitution, agility, intelligence, willpower) ==
    [path |-> path, level |-> PlayerLevel,
     strength |-> strength, constitution |-> constitution, agility |-> agility,
     intelligence |-> intelligence, willpower |-> willpower,
     abilities |-> get_abilities_for_level(path, PlayerLevel),
     max_health |-> calculate_max_health(constitution, PlayerLevel),
     current_health |-> Min(StartHealth, calculate_max_health(constitution, PlayerLevel)),
     max_mana |-> calculate_max_mana(willpower, PlayerLevel),
     current_mana |-> Min(StartMana, calculate_max_mana(willpower, PlayerLevel)),
     max_stamina |-> calculate_max_stamina(constitution, agility, PlayerLevel),
     current_stamina |->
        Min(StartStamina, calculate_max_stamina(constitution, agility, PlayerLevel))]

Players ==
    {PlayerCharacter("tomas", 50, 10, 10, 10, 10),
     PlayerCharacter("pug", 10, 10, 10, 30, 20)}

Rat == Enemy("Rat", 1, 10, 0, 4, 10, 10, 10, FALSE)
Imp == Enemy("Imp", 2, 10, 0, 8, 12, 10, 10, TRUE)

\* The enemy lists a battle is constructed with
Encounters == {<<Imp>>, <<Rat, Imp>>}

\* GameLoop._start_combat: the battle exists and the loop waits for a command
LoopInit ==
    /\ loop = [pc |-> "command", i |-> 0]
    /\ round = <<>>

\* no DamageCalculator call made yet
NoCalc == [op |-> "init", args |-> <<>>, value |-> <<>>]

CalcInit == calc = NoCalc

\* UserStorage.__init__ on an empty directory
AuthInit ==
    /\ files = <<>>
    /\ issued = 0
    /\ now = 0
    /\ authRet = [op |-> "init"]

\* StateMachine.__init__ with the default initial state
SMInit ==
    /\ sm = [current_state |-> "MAIN_MENU", previous_state |-> "None", state_data |-> <<>>]
    /\ smRet = [op |-> "init", arg |-> "", value |-> TRUE]

\* no call is running and the lock of UserStorage.__init__ is free
ThreadInit ==
    /\ threads = <<>>
    /\ lock = 0

NoRet == Ret("init", 0, "none", "", 0, FALSE, "", 0, "", 0, 0)

Init ==
    /\ player \in Players
    /\ enemies \in Encounters
    /\ turn_number = 0
    /\ result = "ongoing"
    /\ player_defending = FALSE
    /\ ret = NoRet
    /\ EMInit
    /\ LoopInit
    /\ CalcInit
    /\ AuthInit
    /\ SMInit
    /\ ThreadInit

PlayerTurn ==
    \E action_name \in ActionNames :
      \E target_index \in TargetsFor(action_name) :
        player_turn(action_name, target_index) /\ UNCHANGED <<em, emRet, otherVars>>

EnemyTurn ==
    \E enemy_index \in EnemyIndices : enemy_turn(enemy_index) /\ UNCHANGED <<em, emRet, otherVars>>

AttemptFlee == attempt_flee /\ UNCHANGED <<em, emRet, otherVars>>

NextTurn == next_turn /\ UNCHANGED <<em, emRet, otherVars>>

Defeat == GameLoopDefeat /\ UNCHANGED <<em, emRet, otherVars>>

Probe == CanUseProbe /\ UNCHANGED <<em, emRet, otherVars>>

Next == PlayerTurn \/ EnemyTurn \/ AttemptFlee \/ NextTurn \/ Defeat

Spec == Init /\ [][Next]_vars

\* legality probes between player turns
NextProbe == PlayerTurn \/ Probe

SpecProbe == Init /\ [][NextProbe]_vars

NextEM == EMAdd \/ EMRemove \/ EMTick \/ EMClear

SpecEM == Init /\ [][NextEM]_vars

(***************************************************************************)
(* engine/game_loop.py: one combat, round after round. _handle_combat      *)
(* reads a command and makes the player's call; _execute_enemy_turns then  *)
(* walks the enemies; next_turn closes the round. loop.pc is the place in  *)
(* that code, loop.i the index of the enemy loop; round lists the Battle   *)
(* calls made since the last command.                                      *)
(***************************************************************************)
Event(op, i) == [op |-> op, i |-> i]

\* variant of the enemy loop that does not advance its index
StayOnEnemy(i) == i

\* the next index of enumerate(self.current_battle.enemies)
NextEnemy(i) == i + 1

\* where _handle_combat goes after player_turn returned (lines 519-523)
AfterPlayerTurn(battle_result) ==
    [pc |-> IF battle_result = "ongoing" THEN "enemies" ELSE "next_turn", i |-> 0]

\* 'attack <n>': player_turn("Attack", n - 1)
LoopAttack ==
    /\ loop.pc = "command"
    /\ result = "ongoing"
    /\ \E target_index \in TargetIndices : player_turn("Attack", target_index)
    /\ round' = <<Event("player_turn", 0)>>
    /\ loop' = AfterPlayerTurn(result')
    /\ UNCHANGED <<em, emRet, calc, authVars, smVars, threadVars>>

\* 'defend': player_turn("Defend")
LoopDefend ==
    /\ loop.pc = "command"
    /\ result = "ongoing"
    /\ player_turn("Defend", 0)
    /\ round' = <<Event("player_turn", 0)>>
    /\ loop' = AfterPlayerTurn(result')
    /\ UNCHANGED <<em, emRet, calc, authVars, smVars, threadVars>>

\* 'flee': attempt_flee(); on success _end_combat, otherwise the enemies act.
\* An exception leaves _handle_combat.
LoopFlee ==
    /\ loop.pc = "command"
    /\ result = "ongoing"
    /\ attempt_flee
    /\ round' = <<Event("attempt_flee", 0)>>
    /\ loop' = [pc |-> IF ret'.status = "raised" THEN "crashed"
                       ELSE IF ret'.detail = "success" THEN "ended"
                       ELSE "enemies",
                i |-> 0]
    /\ UNCHANGED <<em, emRet, calc, authVars, smVars, threadVars>>

\* the check of line 465: the battle is over, _end_combat drops it
LoopEnd ==
    /\ loop.pc = "command"
    /\ result # "ongoing"
    /\ loop' = [pc |-> "ended", i |-> 0]
    /\ UNCHANGED <<battleVars, round, em, emRet, calc, authVars, smVars, threadVars>>

\* _execute_enemy_turns: an enemy that is not alive is passed over (570-571)
LoopEnemySkip ==
    /\ loop.pc = "enemies"
    /\ loop.i < Len(enemies)
    /\ ~is_alive(enemies[loop.i + 1])
    /\ loop' = [pc |-> "enemies", i |-> NextEnemy(loop.i)]
    /\ UNCHANGED <<battleVars, round, em, emRet, calc, authVars, smVars, threadVars>>

\* _execute_enemy_turns: enemy_turn(i) for a living enemy (573-576)
LoopEnemyTurn ==
    /\ loop.pc = "enemies"
    /\ loop.i < Len(enemies)
    /\ is_alive(enemies[loop.i + 1])
    /\ enemy_turn(loop.i)
    /\ round' = Append(round, Event("enemy_turn", loop.i))
    /\ loop' = IF ret'.status = "skipped"
               THEN [pc |-> "enemies", i |-> NextEnemy(loop.i)]
               ELSE [pc |-> "died_check", i |-> loop.i]
    /\ UNCHANGED <<em, emRet, calc, authVars, smVars, threadVars>>

\* _execute_enemy_turns: the check of lines 585-588 after that enemy's turn
LoopDiedCheck ==
    /\ loop.pc = "died_check"
    /\ IF player.current_health <= 0
       THEN /\ GameLoopDefeat
            /\ loop' = [pc |-> "next_turn", i |-> 0]
       ELSE /\ loop' = [pc |-> "enemies", i |-> NextEnemy(loop.i)]
            /\ UNCHANGED battleVars
    /\ UNCHANGED <<round, em, emRet, calc, authVars, smVars, threadVars>>

\* _execute_enemy_turns: the for loop is exhausted
LoopEnemiesDone ==
    /\ loop.pc = "enemies"
    /\ loop.i >= Len(enemies)
    /\ loop' = [pc |-> "next_turn", i |-> 0]
    /\ UNCHANGED <<battleVars, round, em, emRet, calc, authVars, smVars, threadVars>>

\* self.current_battle.next_turn() (lines 523, 533, 545)
LoopNextTurn ==
    /\ loop.pc = "next_turn"
    /\ next_turn
    /\ round' = Append(round, Event("next_turn", 0))
    /\ loop' = [pc |-> "command", i |-> 0]
    /\ UNCHANGED <<em, emRet, calc, authVars, smVars, threadVars>>

NextLoop ==
    \/ LoopAttack \/ LoopDefend \/ LoopFlee \/ LoopEnd
    \/ LoopEnemySkip \/ LoopEnemyTurn \/ LoopDiedCheck \/ LoopEnemiesDone
    \/ LoopNextTurn

SpecLoop == Init /\ [][NextLoop]_vars

(***************************************************************************)
(* The health and resource methods of PlayerCharacter and Enemy called on  *)
(* their own, with the amounts their callers pass: costs, damage and       *)
(* healing are never negative. ret.damage holds the amount, ret.hit the    *)
(* value returned.                                                         *)
(***************************************************************************)
Amounts == {0, 5, 50, 200}

StatCall(op, amount, value) ==
    Ret(op, 0, "none", "", amount, value, "", 0, "", 0, 0)

StatFrame == UNCHANGED <<turn_number, result, player_defending, em, emRet, otherVars>>

PlayerTakeDamage ==
    \E amount \in Amounts :
        /\ player' = take_damage(player, amount)
        /\ ret' = StatCall("take_damage", amount, player_is_alive(player'))
        /\ UNCHANGED enemies /\ StatFrame

PlayerHeal ==
    \E amount \in Amounts :
        /\ player' = heal(player, amount)
        /\ ret' = StatCall("heal", amount, TRUE)
        /\ UNCHANGED enemies /\ StatFrame

EnemyTakeDamage ==
    \E amount \in Amounts :
        /\ enemies' = [enemies EXCEPT ![1] = enemy_take_damage(@, amount)]
        /\ ret' = StatCall("enemy_take_damage", amount, is_alive(enemies'[1]))
        /\ UNCHANGED player /\ StatFrame

EnemyHeal ==
    \E amount \in Amounts :
        /\ enemies' = [enemies EXCEPT ![1] = enemy_heal(@, amount)]
        /\ ret' = StatCall("enemy_heal", amount, TRUE)
        /\ UNCHANGED player /\ StatFrame

NextHealth == PlayerTakeDamage \/ PlayerHeal \/ EnemyTakeDamage \/ EnemyHeal

SpecHealth == Init /\ [][NextHealth]_vars

\* the amounts offered to the resource methods
ResourceAmounts == {0, 20, 200}

UseMana ==
    \E amount \in ResourceAmounts :
        /\ player' = use_mana(player, amount)
        /\ ret' = StatCall("use_mana", amount, use_mana_ret(player, amount))
        /\ UNCHANGED enemies /\ StatFrame

RestoreMana ==
    \E amount \in ResourceAmounts :
        /\ player' = restore_mana(player, amount)
        /\ ret' = StatCall("restore_mana", amount, TRUE)
        /\ UNCHANGED enemies /\ StatFrame

UseStamina ==
    \E amount \in ResourceAmounts :
        /\ player' = use_stamina(player, amount)
        /\ ret' = StatCall("use_stamina", amount, use_stamina_ret(player, amount))
        /\ UNCHANGED enemies /\ StatFrame

RestoreStamina ==
    \E amount \in ResourceAmounts :
        /\ player' = restore_stamina(player, amount)
        /\ ret' = StatCall("restore_stamina", amount, TRUE)
        /\ UNCHANGED enemies /\ StatFrame

\* the resource methods, and player turns between them
NextResources == UseMana \/ RestoreMana \/ UseStamina \/ RestoreStamina \/ PlayerTurn

\* the mage against one enemy
InitResources == Init /\ player.path = "pug" /\ Len(enemies) = 1

SpecResources == InitResources /\ [][NextResources]_vars

(***************************************************************************)
(* DamageCalculator called on its own                                      *)
(***************************************************************************)
\* The stats, defenses and base damages offered to the calculator. On these
\* the integer arithmetic above returns what the floating-point code returns.
CalcStats == {-30, 0, 10, 15, 25, 60}

CalcDefenses == {-30, 0, 5, 30, 200}

CalcBaseDamages == {0, 1, 5, 15}

\* AttackType, as far as calculate_physical_damage distinguishes it
AttackTypes == {"light", "normal", "heavy"}

\* The draws offered for random.uniform(0.9, 1.1): both ends and the middle
CalcVariances == {90, 100, 110}

CalcInputs ==
    [attacker_strength : CalcStats, defender_defense : CalcDefenses,
     base_damage : CalcBaseDamages, attack_type : AttackTypes,
     hit_draw : Draws, crit_draw : Draws, variance : CalcVariances]

\* the arguments are chosen, no call made yet
InitCalc ==
    /\ player \in Players /\ player.path = "tomas"
    /\ enemies = <<Imp>>
    /\ turn_number = 0
    /\ result = "ongoing"
    /\ player_defending = FALSE
    /\ ret = NoRet
    /\ EMInit
    /\ LoopInit
    /\ AuthInit
    /\ SMInit
    /\ ThreadInit
    /\ calc \in {[op |-> "input", args |-> a, value |-> <<>>] : a \in CalcInputs}

CalcFrame == UNCHANGED <<battleVars, em, emRet, loopVars, authVars, smVars, threadVars>>

CalcPhysicalDamage ==
    /\ calc.op = "input"
    /\ calc' = [calc EXCEPT
                  !.op = "calculate_physical_damage",
                  !.value = calculate_physical_damage(
                                calc.args.attacker_strength, calc.args.defender_defense,
                                calc.args.base_damage, calc.args.attack_type,
                                calc.args.hit_draw, calc.args.crit_draw,
                                calc.args.variance)]
    /\ CalcFrame

CalcHitChance ==
    /\ calc.op = "input"
    /\ calc' = [calc EXCEPT
                  !.op = "_calculate_hit_chance",
                  !.value = _calculate_hit_chance(calc.args.attacker_strength,
                                                  calc.args.defender_defense)]
    /\ CalcFrame

CalcCritChance ==
    /\ calc.op = "input"
    /\ calc' = [calc EXCEPT
                  !.op = "_calculate_crit_chance",
                  !.value = _calculate_crit_chance(calc.args.attacker_strength)]
    /\ CalcFrame

NextCalc == CalcPhysicalDamage \/ CalcHitChance \/ CalcCritChance

SpecCalc == InitCalc /\ [][NextCalc]_vars

(***************************************************************************)
(* utils/validation.py                                                     *)
(***************************************************************************)
\* UsernameValidator.ALLOWED_CHARS.match: every username the model uses is
\* made of letters and underscores
USERNAME_ALLOWED_CHARS(username) == username \in {"alice", "Alice", "bob", "_index", "al"}

\* UsernameValidator.validate: "" when valid, else the error message
UsernameValidator_validate(username) ==
    IF username = "" THEN "Username is required"
    ELSE IF Len(username) < 3 THEN "Username must be at least 3 characters"
    ELSE IF Len(username) > 20 THEN "Username must not exceed 20 characters"
    ELSE IF ~USERNAME_ALLOWED_CHARS(username)
         THEN "Username can only contain letters, numbers, and underscores"
    ELSE ""

\* EmailValidator.EMAIL_REGEX.match on the emails the model uses
EMAIL_REGEX(email) == email \in {"a@x.io", "A@X.io", "b@x.io"}

\* EmailValidator.validate: "" when valid, else the error message
EmailValidator_validate(email) ==
    IF email = "" THEN "Email is required"
    ELSE IF ~EMAIL_REGEX(email) THEN "Invalid email format"
    ELSE IF Len(email) > 254 THEN "Email address is too long"
    ELSE ""

(***************************************************************************)
(* auth/password.py                                                        *)
(***************************************************************************)
MIN_LENGTH == 8
MAX_LENGTH == 128

\* ALLOWED_CHARS.match: every password the model uses is made of allowed
\* characters
ALLOWED_CHARS(password) == password \in {"", "short", "OldPassword123!", "NewPassword456!"}

\* PasswordValidator.validate: "" when valid, else the error message
validate(password) ==
    IF password = "" THEN "Password is required"
    ELSE IF Len(password) < MIN_LENGTH THEN "Password must be at least 8 characters"
    ELSE IF Len(password) > MAX_LENGTH THEN "Password must not exceed 128 characters"
    ELSE IF ~ALLOWED_CHARS(password) THEN "Password contains invalid characters"
    ELSE ""

\* The salts bcrypt.gensalt may draw
Salts == {1, 2}

\* PasswordHasher.hash_password: bcrypt keeps the salt in the hash and the
\* password cannot be read back from it; the record stands for that hash.
\* Passwords stay within the 72 bytes bcrypt takes in.
hash_password(password, salt) == [salt |-> salt, hashed |-> password]

\* variant: every password verifies
verify_password_any(password, hashed) == TRUE

\* PasswordHasher.verify_password: bcrypt.checkpw hashes the password with the
\* salt of the stored hash and compares
verify_password(password, hashed) == hash_password(password, hashed.salt) = hashed

(***************************************************************************)
(* auth/token.py                                                           *)
(***************************************************************************)
expiry_hours == 24

\* TokenGenerator.hash_token
hash_token(token) == <<"sha256", token>>

\* variant: the record is created already used
create_token_record_used(token, user_id, t) ==
    [token_hash |-> hash_token(token), user_id |-> user_id, created_at |-> t,
     expires_at |-> t + expiry_hours, used |-> TRUE]

\* TokenManager.create_token_record at time t
create_token_record(token, user_id, t) ==
    [token_hash |-> hash_token(token), user_id |-> user_id, created_at |-> t,
     expires_at |-> t + expiry_hours, used |-> FALSE]

\* TokenManager.is_token_valid at time t: not used and not past its expiry
is_token_valid(token_record, t) ==
    IF token_record.used THEN FALSE
    ELSE IF t > token_record.expires_at THEN FALSE
    ELSE TRUE

\* TokenManager.verify_token at time t
verify_token(raw_token, token_record, t) ==
    IF hash_token(raw_token) # token_record.token_hash THEN FALSE
    ELSE is_token_valid(token_record, t)

\* variant: the record is returned as it was
mark_token_used_not(token_record, t) == token_record

\* TokenManager.mark_token_used at time t
mark_token_used(token_record, t) ==
    [x \in DOMAIN token_record \cup {"used", "used_at"} |->
        IF x = "used" THEN TRUE ELSE IF x = "used_at" THEN t ELSE token_record[x]]

(***************************************************************************)
(* auth/user_storage.py: the data directory as a map from file stem to     *)
(* the JSON object in <stem>.json                                          *)
(***************************************************************************)
None == [none |-> TRUE]

\* dict[k] = v
Put(f, k, v) == [x \in DOMAIN f \cup {k} |-> IF x = k THEN v ELSE f[x]]

\* dict.update(updates)
Update(f, updates) ==
    [x \in DOMAIN f \cup DOMAIN updates |-> IF x \in DOMAIN updates THEN updates[x] ELSE f[x]]

_get_user_file(username) == Lower(username)

_get_index_file == "_index"

_load_index(fs) == IF _get_index_file \in DOMAIN fs THEN fs[_get_index_file] ELSE <<>>

_save_index(fs, index) == Put(fs, _get_index_file, index)

user_exists(fs, username) == _get_user_file(username) \in DOMAIN fs

email_exists(fs, email) == Lower(email) \in DOMAIN _load_index(fs)

get_user(fs, username) ==
    IF _get_user_file(username) \in DOMAIN fs THEN fs[_get_user_file(username)] ELSE None

\* index.get(email.lower()), then "if username:", false for None and for ""
get_user_by_email(fs, email) ==
    LET index == _load_index(fs)
    IN  IF Lower(email) \in DOMAIN index /\ index[Lower(email)] # ""
        THEN get_user(fs, index[Lower(email)])
        ELSE None

\* create_user, lines 88-92: the message of the ValueError raised, "" for none
create_user_error(fs, username, email) ==
    IF user_exists(fs, username) THEN "Username already exists"
    ELSE IF email_exists(fs, email) THEN "Email already registered"
    ELSE ""

\* create_user, lines 94-103; last_login is {} for None, else {time}
user_data(username, email, password_hash, t) ==
    [username |-> username, email |-> Lower(email), password_hash |-> password_hash,
     created_at |-> t, last_login |-> {}, email_verified |-> FALSE,
     active_sessions |-> <<>>, reset_tokens |-> <<>>]

\* create_user, lines 105-113: the user file is written, then the index is
\* loaded, extended and saved
create_user(fs, username, email, password_hash, t) ==
    LET written == Put(fs, _get_user_file(username),
                       user_data(username, email, password_hash, t))
        index == _load_index(written)
    IN  _save_index(written, Put(index, Lower(email), Lower(username)))

\* update_user: the files afterwards (unchanged when the user is missing)
update_user(fs, username, updates) ==
    IF get_user(fs, username) = None THEN fs
    ELSE Put(fs, _get_user_file(username), Update(get_user(fs, username), updates))

\* list_users: the stems of the .json files other than _index.json
list_users(fs) == DOMAIN fs \ {_get_index_file}

(***************************************************************************)
(* UserStorage and AccountManager calls                                    *)
(***************************************************************************)
Usernames == {"alice", "Alice", "bob", "_index", ""}

\* The usernames and emails offered to register: one of each is invalid
RegisterUsernames == {"alice", "al"}

RegisterEmails == {"a@x.io", "nobody"}

\* The usernames offered to login and change_password
LoginUsernames == {"alice", "Alice", "_index"}

Emails == {"a@x.io", "A@X.io", "b@x.io"}

Passwords == {"short", "OldPassword123!", "NewPassword456!"}

MaxTokens == 2    \* tokens are generated while fewer were issued
MaxNow == 1       \* the clock advances while below

AuthCall(op, username, email, current, new, status, detail, value) ==
    [op |-> op, username |-> username, email |-> email, current |-> current,
     new |-> new, status |-> status, detail |-> detail, value |-> value]

AuthFrame == UNCHANGED <<battleVars, em, emRet, loopVars, calc, smVars, threadVars>>

\* UserStorage.create_user(username, email, password_hash)
CreateUser ==
    \E username \in Usernames, email \in Emails :
        LET password_hash == hash_password("OldPassword123!", 1)
            error == create_user_error(files, username, email)
        IN  /\ IF error # ""
               THEN /\ authRet' = AuthCall("create_user", username, email, "", "",
                                           "raised", error, None)
                    /\ UNCHANGED files
               ELSE /\ files' = create_user(files, username, email, password_hash, now)
                    /\ authRet' = AuthCall("create_user", username, email, "", "", "ok", "",
                                           user_data(username, email, password_hash, now))
            /\ UNCHANGED <<issued, now>>
            /\ AuthFrame

\* user_data['password_hash'] raises KeyError: get_user returned the index file
no_password_hash(fs, username) ==
    /\ get_user(fs, username) # None
    /\ "password_hash" \notin DOMAIN get_user(fs, username)

\* AccountManager.register(username, email, password)
Register ==
    \E username \in RegisterUsernames, email \in RegisterEmails,
       password \in Passwords, salt \in Salts :
        LET failed(message) ==
                /\ authRet' = AuthCall("register", username, email, "", password,
                                       "failed", message, None)
                /\ UNCHANGED files
            password_hash == hash_password(password, salt)
        IN  /\ IF UsernameValidator_validate(username) # ""
               THEN failed(UsernameValidator_validate(username))
               ELSE IF EmailValidator_validate(email) # ""
               THEN failed(EmailValidator_validate(email))
               ELSE IF validate(password) # "" THEN failed(validate(password))
               ELSE IF user_exists(files, username) THEN failed("Username already taken")
               ELSE IF email_exists(files, email) THEN failed("Email already registered")
               ELSE /\ files' = create_user(files, username, email, password_hash, now)
                    /\ authRet' = AuthCall("register", username, email, "", password, "ok",
                                           "Account created successfully",
                                           user_data(username, email, password_hash, now))
            /\ UNCHANGED <<issued, now>>
            /\ AuthFrame

\* login succeeds: the user is stored and the password verifies
login_ok(fs, username, password) ==
    /\ get_user(fs, username) # None
    /\ ~no_password_hash(fs, username)
    /\ verify_password(password, get_user(fs, username).password_hash)

\* AccountManager.login(username, password)
Login ==
    \E username \in LoginUsernames, password \in Passwords :
        /\ issued < MaxTokens
        /\ IF no_password_hash(files, username)
           THEN /\ authRet' = AuthCall("login", username, "", password, "", "raised",
                                       "KeyError", None)
                /\ UNCHANGED <<files, issued>>
           ELSE IF ~login_ok(files, username, password)
           THEN /\ authRet' = AuthCall("login", username, "", password, "", "failed",
                                       "Invalid username or password", None)
                /\ UNCHANGED <<files, issued>>
           ELSE LET session_token == issued + 1
                    token_record == create_token_record(session_token, username, now)
                    updates == [last_login |-> {now},
                                active_sessions |->
                                    Append(get_user(files, username).active_sessions,
                                           token_record)]
                IN  /\ files' = update_user(files, username, updates)
                    /\ issued' = issued + 1
                    /\ authRet' = AuthCall("login", username, "", password, "", "ok",
                                           "Login successful", session_token)
        /\ UNCHANGED now
        /\ AuthFrame

\* AccountManager.change_password(username, current_password, new_password)
ChangePassword ==
    \E username \in LoginUsernames, current_password \in Passwords,
       new_password \in Passwords, salt \in Salts :
        LET stored == get_user(files, username)
            failed(message) ==
                /\ authRet' = AuthCall("change_password", username, "", current_password,
                                       new_password, "failed", message, None)
                /\ UNCHANGED files
        IN  /\ IF stored = None THEN failed("User not found")
               ELSE IF no_password_hash(files, username)
                    THEN /\ authRet' = AuthCall("change_password", username, "",
                                                current_password, new_password, "raised",
                                                "KeyError", None)
                         /\ UNCHANGED files
               ELSE IF ~verify_password(current_password, stored.password_hash)
                    THEN failed("Current password is incorrect")
               ELSE IF validate(new_password) # "" THEN failed(validate(new_password))
               ELSE /\ files' = update_user(files, username,
                                    [password_hash |-> hash_password(new_password, salt)])
                    /\ authRet' = AuthCall("change_password", username, "",
                                           current_password, new_password, "ok",
                                           "Password changed successfully", None)
            /\ UNCHANGED <<issued, now>>
            /\ AuthFrame

\* user_data.get(key, []) on the list-valued keys
get_list(record, key) == IF key \in DOMAIN record THEN record[key] ELSE <<>>

\* the index of the first record of the list with that token hash, 0 for none
first_match(records, token_hash) ==
    IF \E i \in 1..Len(records) : records[i].token_hash = token_hash
    THEN CHOOSE i \in 1..Len(records) :
            /\ records[i].token_hash = token_hash
            /\ \A j \in 1..(i - 1) : records[j].token_hash # token_hash
    ELSE 0

\* a session or reset call and its result; token 0 is a string never generated
TokenCall(op, username, token, new, status, detail) ==
    [op |-> op, username |-> username, token |-> token, new |-> new,
     status |-> status, detail |-> detail]

\* AccountManager.verify_session(username, session_token) at time t
verify_session(fs, username, session_token, t) ==
    LET stored == get_user(fs, username)
        active_sessions == get_list(stored, "active_sessions")
        i == first_match(active_sessions, hash_token(session_token))
    IN  IF stored = None THEN FALSE
        ELSE IF i = 0 THEN FALSE
        ELSE is_token_valid(active_sessions[i], t)

\* variant: the sessions are kept as they are
updated_sessions_all(active_sessions, token_hash) == active_sessions

\* logout, lines 142-145: the sessions without those of that token hash
updated_sessions(active_sessions, token_hash) ==
    SelectSeq(active_sessions, LAMBDA session : session.token_hash # token_hash)

\* AccountManager.logout(username, session_token)
Logout ==
    \E username \in LoginUsernames, session_token \in 0..issued :
        LET stored == get_user(files, username)
        IN  /\ IF stored = None
               THEN /\ authRet' = TokenCall("logout", username, session_token, "",
                                            "failed", "User not found")
                    /\ UNCHANGED files
               ELSE /\ files' = update_user(files, username,
                                    [active_sessions |->
                                        updated_sessions(get_list(stored, "active_sessions"),
                                                         hash_token(session_token))])
                    /\ authRet' = TokenCall("logout", username, session_token, "",
                                            "ok", "Logout successful")
            /\ UNCHANGED <<issued, now>>
            /\ AuthFrame

\* AccountManager.request_password_reset(email, reset_url); the token goes out
\* by email
RequestPasswordReset ==
    \E email \in Emails :
        LET stored == get_user_by_email(files, email)
            reset_token == issued + 1
            token_record == create_token_record(reset_token, stored.username, now)
        IN  /\ issued < MaxTokens
            /\ IF stored = None
               THEN /\ authRet' = TokenCall("request_password_reset", "", 0, "", "ok",
                                            "If the email exists, a reset link has been sent")
                    /\ UNCHANGED <<files, issued>>
               ELSE /\ files' = update_user(files, stored.username,
                                    [reset_tokens |->
                                        Append(get_list(stored, "reset_tokens"), token_record)])
                    /\ issued' = issued + 1
                    /\ authRet' = TokenCall("request_password_reset", stored.username,
                                            reset_token, "", "ok",
                                            "If the email exists, a reset link has been sent")
            /\ UNCHANGED now
            /\ AuthFrame

fs_reset_tokens(fs, username) == get_list(fs[username], "reset_tokens")

\* the users reset_password's loop can stop at: those holding a reset token
\* record with that hash
holders(fs, token_hash) ==
    {stem \in list_users(fs) : first_match(get_list(fs[stem], "reset_tokens"), token_hash) # 0}

\* AccountManager.reset_password(reset_token, new_password)
ResetPassword ==
    \E reset_token \in 0..issued, new_password \in Passwords, salt \in Salts :
        LET token_hash == hash_token(reset_token)
            failed(message) ==
                /\ authRet' = TokenCall("reset_password", "", reset_token, new_password,
                                        "failed", message)
                /\ UNCHANGED files
        IN  /\ IF validate(new_password) # "" THEN failed(validate(new_password))
               ELSE IF holders(files, token_hash) = {}
               THEN failed("Invalid or expired reset token")
               ELSE \E username \in holders(files, token_hash) :
                      LET reset_tokens == fs_reset_tokens(files, username)
                          i == first_match(reset_tokens, token_hash)
                      IN  IF ~verify_token(reset_token, reset_tokens[i], now)
                          THEN failed("Invalid or expired reset token")
                          ELSE /\ files' = update_user(files, username,
                                      [password_hash |-> hash_password(new_password, salt),
                                       reset_tokens |->
                                          [reset_tokens EXCEPT
                                              ![i] = mark_token_used(reset_tokens[i], now)]])
                               /\ authRet' = TokenCall("reset_password", username,
                                                       reset_token, new_password, "ok",
                                                       "Password reset successfully")
            /\ UNCHANGED <<issued, now>>
            /\ AuthFrame

\* The hours that pass between two calls: one, or more than a token lives
Elapsed == {1, expiry_hours + 1}

\* datetime.utcnow() moves on between calls
Tick ==
    /\ now < MaxNow
    /\ \E hours \in Elapsed : now' = now + hours
    /\ UNCHANGED <<files, issued, authRet>>
    /\ AuthFrame

\* one battle, so that only the account state varies
InitAuth == Init /\ player.path = "tomas" /\ Len(enemies) = 1

\* UserStorage on its own
NextStorage == CreateUser \/ Tick

SpecStorage == InitAuth /\ [][NextStorage]_vars

\* AccountManager over its UserStorage
NextAuth == Register \/ Login \/ ChangePassword \/ Tick

SpecAuth == InitAuth /\ [][NextAuth]_vars

\* sessions: register, login, logout
NextSession == Register \/ Login \/ Logout \/ Tick

SpecSession == InitAuth /\ [][NextSession]_vars

\* password reset: register, request_password_reset, reset_password
NextReset == Register \/ RequestPasswordReset \/ ResetPassword \/ Tick

SpecReset == InitAuth /\ [][NextReset]_vars

(***************************************************************************)
(* An enemy's effects in enemy_turn: effects are added to the enemy's      *)
(* EffectManager between the turns                                         *)
(***************************************************************************)

\* the effects offered to enemy.effect_manager.add_effect
EnemyEffects == {create_bleeding, create_regeneration, create_stun}

EnemyAddEffect ==
    \E effect \in EnemyEffects :
        /\ enemies' = [enemies EXCEPT
                          ![1].active_effects = add_effect(@, effect)]
        /\ ret' = StatCall("enemy_add_effect", effect.potency,
                           add_effect_ret(enemies[1].active_effects, effect))
        /\ UNCHANGED player /\ StatFrame

NextEnemyEffects == EnemyAddEffect \/ EnemyTakeDamage \/ EnemyTurn

\* the warrior against one enemy
InitEnemyEffects == Init /\ player.path = "tomas" /\ Len(enemies) = 1

SpecEnemyEffects == InitEnemyEffects /\ [][NextEnemyEffects]_vars

(***************************************************************************)
(* EnemyAI called on its own: choose_action, then execute_action with the  *)
(* action it returned                                                      *)
(***************************************************************************)

\* the effects an enemy of the harness may hold
AIEffects ==
    {create_stun, StatusEffect("frozen", 2, 0), StatusEffect("paralyzed", 2, 0),
     create_bleeding}

\* an enemy with or without abilities, at full or at a fifth of its health,
\* with any of the effects
InitAI ==
    /\ player \in Players
    /\ \E e \in {Rat, Imp} : \E fx \in SUBSET AIEffects : \E low \in BOOLEAN :
          enemies = <<[e EXCEPT
                         !.active_effects = fx,
                         !.current_health = IF low THEN e.max_health \div 5
                                            ELSE e.max_health]>>
    /\ turn_number = 0
    /\ result = "ongoing"
    /\ player_defending = FALSE
    /\ ret = NoRet
    /\ EMInit
    /\ LoopInit
    /\ CalcInit
    /\ AuthInit
    /\ SMInit
    /\ ThreadInit

\* ai.choose_action(player_health_pct)
ChooseAction ==
    \E action \in ChosenActions(enemies[1]) :
        /\ ret' = Ret("choose_action", 0, "ok", action, 0, FALSE, "", 0, "", 0, 0)
        /\ UNCHANGED <<player, enemies, turn_number, result, player_defending,
                       em, emRet, otherVars>>

\* ai.execute_action(action, defense) on the action choose_action returned;
\* ret.effect keeps the argument
ExecuteAction ==
    /\ ret.op = "choose_action"
    /\ \E o \in ExecuteOutcomes(enemies[1], ret.detail, player_defense(player)) :
          /\ enemies' = [enemies EXCEPT ![1] =
                           IF ret.detail = "defend"
                           THEN [@ EXCEPT !.is_defending = TRUE]
                           ELSE @]
          /\ ret' = Ret("execute_action", 0, "ok", o.action, o.damage, o.hit,
                        ret.detail, 0, "", 0, 0)
    /\ UNCHANGED <<player, turn_number, result, player_defending,
                   em, emRet, otherVars>>

NextAI == ChooseAction \/ ExecuteAction

SpecAI == InitAI /\ [][NextAI]_vars

(***************************************************************************)
(* attempt_flee against encounters whose mean agility is not a whole       *)
(* number, with draws close to the chance                                  *)
(***************************************************************************)

\* create_goblin(level=1) with agility lowered to 10, and create_orc()
Goblin == Enemy("Goblin", 1, 9, 8, 10, 6, 5, 7, TRUE)
Orc == Enemy("Orc Warrior", 3, 17, 15, 11, 6, 7, 19, TRUE)

FleePlayers ==
    {PlayerCharacter("tomas", 50, 10, 10, 10, 10),
     PlayerCharacter("tomas", 50, 10, 20, 10, 10)}

FleeEncounters == {<<Goblin>>, <<Rat, Orc>>}

\* random.random() in attempt_flee, in percent
FleeDraws == {20, 63, 85, 95}

InitFlee ==
    /\ player \in FleePlayers
    /\ enemies \in FleeEncounters
    /\ turn_number = 0
    /\ result = "ongoing"
    /\ player_defending = FALSE
    /\ ret = NoRet
    /\ EMInit
    /\ LoopInit
    /\ CalcInit
    /\ AuthInit
    /\ SMInit
    /\ ThreadInit

FleeAttempt == attempt_flee_with(FleeDraws) /\ UNCHANGED <<em, emRet, otherVars>>

NextFlee == FleeAttempt \/ EnemyTakeDamage \/ NextTurn

SpecFlee == InitFlee /\ [][NextFlee]_vars

(***************************************************************************)
(* engine/state_machine.py. previous_state is "None" until a transition    *)
(* was made; state_data is the dict of the keyword arguments. No callback  *)
(* is registered: register_callback has no caller.                         *)
(***************************************************************************)
GameState ==
    {"MAIN_MENU", "LOGIN", "REGISTER", "CHARACTER_SELECT", "PLAYING", "COMBAT",
     "DIALOGUE", "INVENTORY", "STATS", "PAUSE", "QUIT"}

\* variant of the table in which QUIT leads back to the main menu
valid_transitions_from_quit ==
    [from_state \in GameState |->
        CASE from_state = "MAIN_MENU" -> {"LOGIN", "REGISTER", "CHARACTER_SELECT", "QUIT"}
          [] from_state = "LOGIN" -> {"MAIN_MENU", "CHARACTER_SELECT"}
          [] from_state = "REGISTER" -> {"MAIN_MENU", "CHARACTER_SELECT", "LOGIN"}
          [] from_state = "CHARACTER_SELECT" -> {"MAIN_MENU", "PLAYING"}
          [] from_state = "PLAYING" ->
                {"COMBAT", "DIALOGUE", "INVENTORY", "STATS", "PAUSE", "MAIN_MENU", "QUIT"}
          [] from_state = "COMBAT" -> {"PLAYING", "INVENTORY", "QUIT"}
          [] from_state = "DIALOGUE" -> {"PLAYING", "QUIT"}
          [] from_state = "INVENTORY" -> {"PLAYING", "COMBAT", "QUIT"}
          [] from_state = "STATS" -> {"PLAYING", "QUIT"}
          [] from_state = "PAUSE" -> {"PLAYING", "MAIN_MENU", "QUIT"}
          [] OTHER -> {"MAIN_MENU"}]

\* the table of _can_transition (lines 72-126)
valid_transitions ==
    [from_state \in GameState |->
        CASE from_state = "MAIN_MENU" -> {"LOGIN", "REGISTER", "CHARACTER_SELECT", "QUIT"}
          [] from_state = "LOGIN" -> {"MAIN_MENU", "CHARACTER_SELECT"}
          [] from_state = "REGISTER" -> {"MAIN_MENU", "CHARACTER_SELECT", "LOGIN"}
          [] from_state = "CHARACTER_SELECT" -> {"MAIN_MENU", "PLAYING"}
          [] from_state = "PLAYING" ->
                {"COMBAT", "DIALOGUE", "INVENTORY", "STATS", "PAUSE", "MAIN_MENU", "QUIT"}
          [] from_state = "COMBAT" -> {"PLAYING", "INVENTORY", "QUIT"}
          [] from_state = "DIALOGUE" -> {"PLAYING", "QUIT"}
          [] from_state = "INVENTORY" -> {"PLAYING", "COMBAT", "QUIT"}
          [] from_state = "STATS" -> {"PLAYING", "QUIT"}
          [] from_state = "PAUSE" -> {"PLAYING", "MAIN_MENU", "QUIT"}
          [] OTHER -> {}]

_can_transition(from_state, to_state) ==
    IF from_state = to_state THEN TRUE
    ELSE to_state \in valid_transitions[from_state]

\* transition_to(new_state, **data): the machine afterwards
transition_to(machine, new_state, data) ==
    IF ~_can_transition(machine.current_state, new_state) THEN machine
    ELSE [current_state |-> new_state, previous_state |-> machine.current_state,
          state_data |-> data]

SMCall(op, arg, value) == [op |-> op, arg |-> arg, value |-> value]

SMFrame == UNCHANGED <<battleVars, em, emRet, loopVars, calc, authVars, threadVars>>

\* the keyword arguments offered to transition_to
StateData == {<<>>, [character |-> "tomas"]}

TransitionTo ==
    \E new_state \in GameState, data \in StateData :
        /\ sm' = transition_to(sm, new_state, data)
        /\ smRet' = SMCall("transition_to", new_state,
                           _can_transition(sm.current_state, new_state))
        /\ SMFrame

\* go_back(): transition_to(previous_state) without keyword arguments
GoBack ==
    /\ IF sm.previous_state = "None"
       THEN /\ sm' = sm
            /\ smRet' = SMCall("go_back", "None", FALSE)
       ELSE /\ sm' = transition_to(sm, sm.previous_state, <<>>)
            /\ smRet' = SMCall("go_back", sm.previous_state,
                               _can_transition(sm.current_state, sm.previous_state))
    /\ SMFrame

\* set_data(key, value)
SetData ==
    \E value \in {"tomas", "pug"} :
        /\ sm' = [sm EXCEPT !.state_data = Put(@, "character", value)]
        /\ smRet' = SMCall("set_data", value, TRUE)
        /\ SMFrame

\* reset()
Reset ==
    /\ sm' = [current_state |-> "MAIN_MENU", previous_state |-> "None", state_data |-> <<>>]
    /\ smRet' = SMCall("reset", "", TRUE)
    /\ SMFrame

NextSM == TransitionTo \/ GoBack \/ SetData \/ Reset

SpecSM == InitAuth /\ [][NextSM]_vars

(***************************************************************************)
(* Calls running concurrently on one AccountManager and its UserStorage,   *)
(* one per thread. A step is one access to the shared files or to the      *)
(* lock; what a call computes between two accesses is part of the step     *)
(* before. open(file, 'w') empties the file before json.dump fills it, and *)
(* get_user reads without the lock.                                        *)
(***************************************************************************)
Threads == {1, 2}

\* a file opened for writing and not yet written: json.load raises on it
Torn == [torn |-> TRUE]

Call(pc, op, username, email, password, updates, merged, token, status, detail) ==
    [pc |-> pc, op |-> op, username |-> username, email |-> email,
     password |-> password, updates |-> updates, merged |-> merged,
     token |-> token, status |-> status, detail |-> detail]

Idle == Call("idle", "", "", "", "", None, None, 0, "", "")

ThreadFrame == UNCHANGED <<battleVars, em, emRet, loopVars, calc, smVars, now, authRet>>

\* variant: the lock is taken whether it is held or not
lock_free_always(holder) == TRUE

\* threading.Lock: "with self._lock" enters when no thread holds it
lock_free(holder) == holder = 0

\* login is called: the passwords offered are the user's and a wrong one
LoginStart(t) ==
    /\ threads[t].pc = "idle"
    /\ \E password \in {"OldPassword123!", "NewPassword456!"} :
          threads' = [threads EXCEPT ![t] =
                        [Idle EXCEPT !.pc = "get_user", !.op = "login",
                                     !.username = "alice", !.password = password]]
    /\ UNCHANGED <<files, issued, lock>>
    /\ ThreadFrame

\* login, lines 98-118: get_user without the lock, the password check, the
\* token and the list of sessions with the new record appended
LoginGetUser(t) ==
    LET call == threads[t]
        stored == get_user(files, call.username)
        returned(status, detail) ==
            /\ threads' = [threads EXCEPT ![t] =
                             [call EXCEPT !.pc = "done", !.status = status,
                                          !.detail = detail]]
            /\ UNCHANGED issued
    IN  /\ call.pc = "get_user"
        /\ issued < MaxTokens
        /\ IF stored = Torn THEN returned("raised", "JSONDecodeError")
           ELSE IF ~login_ok(files, call.username, call.password)
           THEN returned("failed", "Invalid username or password")
           ELSE LET session_token == issued + 1
                    token_record == create_token_record(session_token, call.username, now)
                    updates == [last_login |-> {now},
                                active_sessions |->
                                    Append(stored.active_sessions, token_record)]
                IN  /\ issued' = issued + 1
                    /\ threads' = [threads EXCEPT ![t] =
                                     [call EXCEPT !.pc = "acquire", !.updates = updates,
                                                  !.token = session_token]]
        /\ UNCHANGED <<files, lock>>
        /\ ThreadFrame

\* "with self._lock:" of create_user (line 87) and update_user (line 161)
LockAcquire(t) ==
    /\ threads[t].pc = "acquire"
    /\ lock_free(lock)
    /\ lock' = t
    /\ threads' = [threads EXCEPT ![t].pc = "locked"]
    /\ UNCHANGED <<files, issued>>
    /\ ThreadFrame

\* update_user, lines 162-167: the user is read and the updates applied
UpdateRead(t) ==
    LET call == threads[t]
        stored == get_user(files, call.username)
    IN  /\ call.pc = "locked"
        /\ call.op = "login"
        /\ threads' = [threads EXCEPT ![t] =
                         IF stored = None
                         THEN [call EXCEPT !.pc = "release", !.status = "ok",
                                           !.detail = "Login successful"]
                         ELSE [call EXCEPT !.pc = "open",
                                           !.merged = Update(stored, call.updates)]]
        /\ UNCHANGED <<files, issued, lock>>
        /\ ThreadFrame

\* update_user, line 171: open(user_file, 'w')
UpdateOpen(t) ==
    /\ threads[t].pc = "open"
    /\ files' = Put(files, _get_user_file(threads[t].username), Torn)
    /\ threads' = [threads EXCEPT ![t].pc = "dump"]
    /\ UNCHANGED <<issued, lock>>
    /\ ThreadFrame

\* update_user, line 172: json.dump and the close of the file
UpdateDump(t) ==
    /\ threads[t].pc = "dump"
    /\ files' = Put(files, _get_user_file(threads[t].username), threads[t].merged)
    /\ threads' = [threads EXCEPT ![t] =
                     [@ EXCEPT !.pc = "release", !.status = "ok",
                               !.detail = "Login successful"]]
    /\ UNCHANGED <<issued, lock>>
    /\ ThreadFrame

\* the end of the with block; the call returns
LockRelease(t) ==
    /\ threads[t].pc = "release"
    /\ lock' = IF lock = t THEN 0 ELSE lock
    /\ threads' = [threads EXCEPT ![t].pc = "done"]
    /\ UNCHANGED <<files, issued>>
    /\ ThreadFrame

\* the usernames offered to the concurrent create_user calls
CreateUsernames == {"alice", "Alice", "bob", "_index"}

\* create_user is called
CreateStart(t) ==
    /\ threads[t].pc = "idle"
    /\ \E username \in CreateUsernames, email \in Emails :
          threads' = [threads EXCEPT ![t] =
                        [Idle EXCEPT !.pc = "acquire", !.op = "create_user",
                                     !.username = username, !.email = email]]
    /\ UNCHANGED <<files, issued, lock>>
    /\ ThreadFrame

\* create_user, lines 88-92: the two checks, each raising ValueError
CreateCheck(t) ==
    LET call == threads[t]
        error == create_user_error(files, call.username, call.email)
    IN  /\ call.pc = "locked"
        /\ call.op = "create_user"
        /\ threads' = [threads EXCEPT ![t] =
                         IF error # ""
                         THEN [call EXCEPT !.pc = "release", !.status = "raised",
                                           !.detail = error]
                         ELSE [call EXCEPT !.pc = "write_user"]]
        /\ UNCHANGED <<files, issued, lock>>
        /\ ThreadFrame

\* create_user, lines 94-108: the user file is written (no reader of it runs
\* in between: every other call waits for the lock)
CreateWriteUser(t) ==
    LET call == threads[t]
    IN  /\ call.pc = "write_user"
        /\ files' = Put(files, _get_user_file(call.username),
                        user_data(call.username, call.email,
                                  hash_password("OldPassword123!", 1), now))
        /\ threads' = [threads EXCEPT ![t].pc = "write_index"]
        /\ UNCHANGED <<issued, lock>>
        /\ ThreadFrame

\* create_user, lines 110-115: the index is loaded, extended and saved
CreateWriteIndex(t) ==
    LET call == threads[t]
    IN  /\ call.pc = "write_index"
        /\ files' = _save_index(files, Put(_load_index(files), Lower(call.email),
                                           Lower(call.username)))
        /\ threads' = [threads EXCEPT ![t] =
                         [call EXCEPT !.pc = "release", !.status = "ok"]]
        /\ UNCHANGED <<issued, lock>>
        /\ ThreadFrame

\* the state in which the concurrent calls begin: files is the directory
InitThreads(fs) ==
    /\ player \in {p \in Players : p.path = "tomas"}
    /\ enemies = <<Imp>>
    /\ turn_number = 0
    /\ result = "ongoing"
    /\ player_defending = FALSE
    /\ ret = NoRet
    /\ EMInit
    /\ LoopInit
    /\ CalcInit
    /\ SMInit
    /\ files = fs
    /\ issued = 0
    /\ now = 0
    /\ authRet = [op |-> "init"]
    /\ threads = [t \in Threads |-> Idle]
    /\ lock = 0

\* two logins of a user that create_user has stored
InitLogins ==
    InitThreads(create_user(<<>>, "alice", "a@x.io", hash_password("OldPassword123!", 1), 0))

NextLogins ==
    \E t \in Threads :
        \/ LoginStart(t) \/ LoginGetUser(t) \/ LockAcquire(t) \/ UpdateRead(t)
        \/ UpdateOpen(t) \/ UpdateDump(t) \/ LockRelease(t)

SpecLogins == InitLogins /\ [][NextLogins]_vars

\* two create_user calls on an empty directory
InitCreates == InitThreads(<<>>)

NextCreates ==
    \E t \in Threads :
        \/ CreateStart(t) \/ LockAcquire(t) \/ CreateCheck(t) \/ CreateWriteUser(t)
        \/ CreateWriteIndex(t) \/ LockRelease(t)

SpecCreates == InitCreates /\ [][NextCreates]_vars

(***************************************************************************)
(* Claims                                                                  *)
(***************************************************************************)
battleState == <<player, enemies, turn_number, result, player_defending>>

\* C1: once Battle.result is Victory, Defeat or Fled it never changes again.
C1_TerminalResultIsFinal ==
    [][result # "ongoing" => result' = result]_vars

\* C2: when the result is terminal, every call returns the BattleAlreadyOver
\* error and leaves the whole battle state unchanged.
C2_TerminalCallsRejected ==
    [][result # "ongoing" =>
          /\ ret'.status = "error"
          /\ ret'.detail = "Battle is already over"
          /\ UNCHANGED battleState]_vars

\* C3: a player_turn call that returns an error leaves the battle state
\* unchanged, the player's stamina and mana included.
C3_ErrorLeavesStateUnchanged ==
    [][(ret'.op = "player_turn" /\ ret'.status = "error") => UNCHANGED battleState]_vars

\* C4: can_use leaves the player's stamina and mana unchanged, whatever it answers.
C4_CanUseIsPure ==
    [][ret'.op = "can_use" =>
          /\ player'.current_stamina = player.current_stamina
          /\ player'.current_mana = player.current_mana]_vars

\* C5: add_effect never downgrades: after the call the stored potency and the
\* stored duration of the type are each at least what they were before.
C5_AddNeverDowngrades ==
    [][emRet'.op = "add_effect" =>
          \A old \in em :
              old.effect_type = emRet'.effect_type =>
                  \E new \in em' :
                      /\ new.effect_type = old.effect_type
                      /\ new.potency >= old.potency
                      /\ new.duration >= old.duration]_vars

\* C6: add_effect on an active type replaces the stored effect and returns true
\* exactly when the incoming potency or the incoming duration is strictly
\* greater, and otherwise returns false and changes nothing; on a type that is
\* not active it inserts and returns true. The other types are left alone.
C6_AddRule ==
    [][emRet'.op = "add_effect" =>
          LET incoming == emRet'.effect
              same == {e \in em : e.effect_type = incoming.effect_type}
              others == {e \in em : e.effect_type # incoming.effect_type}
          IN  IF same = {}
              THEN emRet'.value /\ em' = em \cup {incoming}
              ELSE \A old \in same :
                     IF incoming.potency > old.potency \/ incoming.duration > old.duration
                     THEN emRet'.value /\ em' = others \cup {incoming}
                     ELSE ~emRet'.value /\ em' = em]_vars

\* a same-potency effect of shorter duration (2 against 3) was refused
C6_Witness ==
    /\ emRet.op = "add_effect"
    /\ ~emRet.value
    /\ emRet.effect.duration = 2
    /\ \E e \in em : /\ e.effect_type = emRet.effect_type
                     /\ e.duration = 3
                     /\ e.potency = emRet.effect.potency

\* C7: the table holds at most one effect per type, and right after
\* tick_effects no stored effect has duration <= 0.
C7_OnePerTypeAndNoneExpired ==
    /\ \A e \in em : \A f \in em : e.effect_type = f.effect_type => e = f
    /\ emRet.op = "tick_effects" => \A e \in em : e.duration > 0

\* a tick that reported an effect it removed and left another one active
C7_Witness ==
    /\ emRet.op = "tick_effects"
    /\ em # {}
    /\ \E r \in emRet.results : r.effect_type \notin {e.effect_type : e \in em}

\* C8: an enemy_turn on a living enemy that holds stunned with duration 1
\* removes the stun, reports 'incapacitated' and leaves the player's health alone.
C8_StunCostsTheTurn ==
    [][\A i \in 1..Len(enemies) :
          (/\ ret'.op = "enemy_turn"
           /\ ret'.status # "raised"
           /\ ret'.target = i - 1
           /\ enemies[i].current_health > 0
           /\ \E e \in enemies[i].active_effects :
                  e.effect_type = "stunned" /\ e.duration = 1)
          =>
          (/\ ret'.detail = "incapacitated"
           /\ player'.current_health = player.current_health
           /\ \A e \in enemies'[i].active_effects : e.effect_type # "stunned")]_vars

\* C9: a successful player_turn sets the result to Victory exactly when every
\* enemy then has health <= 0, and then returns xp and gold summed over all
\* enemies; otherwise the result stays Ongoing and no rewards are returned.
C9_VictoryAndRewards ==
    [][(ret'.op = "player_turn" /\ ret'.status = "ok") =>
          LET n == Len(enemies')
              dead == \A i \in 1..n : enemies'[i].current_health <= 0
          IN  /\ result' = "victory" <=> dead
              /\ dead =>
                    /\ ret'.battle_result = "victory"
                    /\ ret'.xp = SumOver([i \in 1..n |-> enemies'[i].xp_reward], 1..n)
                    /\ ret'.gold = SumOver([i \in 1..n |-> enemies'[i].gold_reward], 1..n)
              /\ ~dead =>
                    /\ result' = "ongoing"
                    /\ ret'.battle_result = ""
                    /\ ret'.xp = 0 /\ ret'.gold = 0]_vars

\* a player turn won a battle against two enemies and returned both rewards
C9_Witness ==
    /\ ret.op = "player_turn"
    /\ result = "victory"
    /\ Len(enemies) = 2
    /\ ret.xp = enemies[1].xp_reward + enemies[2].xp_reward
    /\ ret.gold = enemies[1].gold_reward + enemies[2].gold_reward

\* C10: attempt_flee on an Ongoing battle sets the result to Fled exactly when
\* the draw is strictly below the flee chance; otherwise the result stays
\* Ongoing and nothing else changes.
C10_FleeOnDraw ==
    [][(ret'.op = "attempt_flee" /\ result = "ongoing") =>
          /\ result' = "fled" <=>
                (/\ ret'.status = "ok"
                 /\ ret'.draw < calculate_flee_chance(player.agility,
                                                      avg_enemy_agi(enemies)))
          /\ result' # "fled" =>
                /\ result' = "ongoing"
                /\ UNCHANGED <<player, enemies, turn_number, player_defending>>]_vars

\* a flee attempt failed on a draw equal to the flee chance
C10_Witness ==
    /\ ret.op = "attempt_flee"
    /\ ret.status = "ok"
    /\ ret.detail = "failed"
    /\ result = "ongoing"
    /\ Living(enemies) # {}
    /\ ret.draw = calculate_flee_chance(player.agility, avg_enemy_agi(enemies))

\* C11: in a round of the game loop the player's call comes first and is the
\* only one, no enemy turn follows a player turn that won, the enemy turns come
\* in strictly increasing index order (so no enemy acts twice), and next_turn
\* comes after the last enemy turn.
C11_RoundOrder ==
    /\ \A k \in 1..Len(round) :
          /\ round[k].op \in {"player_turn", "attempt_flee"} <=> k = 1
          /\ round[k].op = "next_turn" => k = Len(round)
          /\ \A j \in 1..(k - 1) :
                (round[j].op = "enemy_turn" /\ round[k].op = "enemy_turn")
                    => round[j].i < round[k].i
    /\ result = "victory" => \A k \in 1..Len(round) : round[k].op # "enemy_turn"
    /\ loop.pc \in {"enemies", "died_check"} =>
          /\ round # <<>>
          /\ \A k \in 1..Len(round) : round[k].op # "next_turn"

\* a round of a player turn, the turns of both enemies and next_turn
C11_Witness ==
    /\ Len(round) = 4
    /\ round[1].op = "player_turn"
    /\ round[2] = Event("enemy_turn", 0)
    /\ round[3] = Event("enemy_turn", 1)
    /\ round[4].op = "next_turn"

\* C12: no Battle operation raises: every call returns a result value.
C12_NoCallRaises == ret.status # "raised"

\* C13: every combatant has 0 <= current_health <= max_health and is alive
\* exactly when its health is positive; damage of at least the remaining health
\* leaves the health at exactly 0 and the combatant reported not alive; healing
\* never lowers the health (and, by the range, never passes max_health).
C13_HealthInRange ==
    /\ [](/\ 0 <= player.current_health
          /\ player.current_health <= player.max_health
          /\ player_is_alive(player) <=> player.current_health > 0
          /\ \A i \in 1..Len(enemies) :
                /\ 0 <= enemies[i].current_health
                /\ enemies[i].current_health <= enemies[i].max_health
                /\ is_alive(enemies[i]) <=> enemies[i].current_health > 0)
    /\ [][/\ (ret'.op = "take_damage" /\ ret'.damage >= player.current_health)
                => (player'.current_health = 0 /\ ~ret'.hit)
          /\ (ret'.op = "enemy_take_damage" /\ ret'.damage >= enemies[1].current_health)
                => (enemies'[1].current_health = 0 /\ ~ret'.hit)
          /\ ret'.op = "heal" => player'.current_health >= player.current_health
          /\ ret'.op = "enemy_heal"
                => enemies'[1].current_health >= enemies[1].current_health]_vars

\* damage above an enemy's max_health left it at health 0, not alive
C13_Witness ==
    /\ ret.op = "enemy_take_damage"
    /\ ret.damage > enemies[1].max_health
    /\ enemies[1].current_health = 0
    /\ ~ret.hit

\* C14: a player_turn with an action that requires a target is carried out only
\* on a target index inside the enemy list that names a living enemy; on any
\* other index it returns an error.
C14_OnlyLivingTargets ==
    [][(/\ ret'.op = "player_turn"
        /\ ret'.status = "ok"
        /\ \E a \in AllActions : a.name = ret'.detail /\ a.requires_target)
       =>
       (/\ ret'.target \in 0..(Len(enemies) - 1)
        /\ enemies[ret'.target + 1].current_health > 0)]_vars

\* C15: use_mana / use_stamina debit exactly the amount and return true when the
\* current value is at least the amount, and otherwise return false and change
\* nothing; mana and stamina stay within 0..max over the resource calls and the
\* player turns.
C15_ResourcesInRange ==
    /\ [](/\ 0 <= player.current_mana /\ player.current_mana <= player.max_mana
          /\ 0 <= player.current_stamina /\ player.current_stamina <= player.max_stamina)
    /\ [][/\ ret'.op = "use_mana" =>
                /\ ret'.hit <=> player.current_mana >= ret'.damage
                /\ player'.current_mana =
                      IF ret'.hit THEN player.current_mana - ret'.damage
                      ELSE player.current_mana
                /\ player'.current_stamina = player.current_stamina
          /\ ret'.op = "use_stamina" =>
                /\ ret'.hit <=> player.current_stamina >= ret'.damage
                /\ player'.current_stamina =
                      IF ret'.hit THEN player.current_stamina - ret'.damage
                      ELSE player.current_stamina
                /\ player'.current_mana = player.current_mana]_vars

\* use_stamina(20) was refused with 5 stamina left
C15_Witness ==
    /\ ret.op = "use_stamina"
    /\ ret.damage = 20
    /\ ~ret.hit
    /\ player.current_stamina = 5

\* C16: the turn counter starts at 0; next_turn raises it by exactly 1, clears
\* the defending flag and changes nothing else; no other operation changes the
\* counter.
C16_NextTurn ==
    /\ turn_number = 0
    /\ [][/\ ret'.op = "next_turn" =>
                /\ turn_number' = turn_number + 1
                /\ player_defending' = FALSE
                /\ UNCHANGED <<player, enemies, result>>
          /\ ret'.op # "next_turn" => turn_number' = turn_number
          /\ turn_number' >= turn_number]_vars

\* next_turn closed a round in which the warrior had used Defend
C16_Witness ==
    /\ ret.op = "next_turn"
    /\ turn_number = 1
    /\ player.path = "tomas"
    /\ player.current_stamina = StartStamina - 5
    /\ ~player_defending

\* C17: calculate_physical_damage returns (0, false, false) on a miss, and on
\* every hit a damage of at least 1, for all non-negative strength, defense
\* and base damage, every attack kind and every variance draw in [0.9, 1.1].
C17_HitDealsDamage ==
    (/\ calc.op = "calculate_physical_damage"
     /\ calc.args.attacker_strength >= 0
     /\ calc.args.defender_defense >= 0
     /\ calc.args.base_damage >= 0)
    => IF calc.value.hit
       THEN calc.value.damage >= 1
       ELSE calc.value = [damage |-> 0, hit |-> FALSE, critical |-> FALSE]

\* a hit whose computed damage the low variance draw truncates to 0
C17_Witness ==
    /\ calc.op = "calculate_physical_damage"
    /\ calc.args.attacker_strength = 0
    /\ calc.args.defender_defense = 0
    /\ calc.args.base_damage = 1
    /\ calc.args.attack_type = "light"
    /\ calc.args.variance = 90
    /\ calc.value.hit
    /\ calc.value.damage = 1

C19_CreateUser ==
    [][(authRet'.op = "create_user" /\ now' = now) =>
        LET username == authRet'.username
            email == authRet'.email
            duplicate ==
                \E stem \in DOMAIN files :
                    /\ "username" \in DOMAIN files[stem]
                    /\ \/ Lower(files[stem].username) = Lower(username)
                       \/ files[stem].email = Lower(email)
        IN  /\ duplicate => authRet'.status = "raised" /\ files' = files
            /\ authRet'.status = "ok" =>
                  /\ user_exists(files', username)
                  /\ email_exists(files', email)
                  /\ get_user_by_email(files', email) = authRet'.value]_vars

C22_Logout ==
    [][/\ (authRet'.op = "logout" /\ authRet'.status = "ok" /\ now' = now) =>
            /\ ~verify_session(files', authRet'.username, authRet'.token, now')
            /\ \A username \in LoginUsernames, other \in (0..issued) \ {authRet'.token} :
                  verify_session(files, username, other, now)
                     => verify_session(files', username, other, now')
       /\ \A username \in LoginUsernames, token \in 0..issued :
            verify_session(files', username, token, now')
               => verify_session(files, username, token, now)]_vars

\* after a logout with one of two session tokens the other is still valid
C22_Witness ==
    /\ authRet.op = "logout"
    /\ authRet.status = "ok"
    /\ authRet.token \in 1..issued
    /\ ~verify_session(files, authRet.username, authRet.token, now)
    /\ \E other \in (1..issued) \ {authRet.token} :
          /\ verify_session(files, authRet.username, other, now)
          /\ now <= expiry_hours

\* C23: a token record is valid when created; a record marked used stays used
\* and invalid; reset_password succeeds only with a token whose record is not
\* used and marks it used, so every later reset_password with that token
\* fails and changes nothing.
C23_ResetOnce ==
    [][/\ (authRet'.op = "request_password_reset" /\ issued' = issued + 1) =>
            LET records == get_list(get_user(files', authRet'.username), "reset_tokens")
            IN  /\ records # <<>>
                /\ records[Len(records)].token_hash = hash_token(authRet'.token)
                /\ is_token_valid(records[Len(records)], now')
       /\ \A stem \in DOMAIN files :
            \A i \in 1..Len(get_list(files[stem], "reset_tokens")) :
                files[stem].reset_tokens[i].used =>
                    /\ stem \in DOMAIN files'
                    /\ files'[stem].reset_tokens[i].used
                    /\ ~is_token_valid(files'[stem].reset_tokens[i], now')
       /\ (authRet'.op = "reset_password" /\ now' = now) =>
            LET token_hash == hash_token(authRet'.token)
                used(fs) ==
                    \E stem \in DOMAIN fs :
                        \E i \in 1..Len(get_list(fs[stem], "reset_tokens")) :
                            /\ fs[stem].reset_tokens[i].token_hash = token_hash
                            /\ fs[stem].reset_tokens[i].used
            IN  /\ used(files) => authRet'.status = "failed"
                /\ authRet'.status = "failed" => files' = files
                /\ authRet'.status = "ok" =>
                      /\ used(files')
                      /\ login_ok(files', authRet'.username, authRet'.new)]_vars

\* a second reset_password with a token that was used: refused
C23_Witness ==
    /\ authRet.op = "reset_password"
    /\ authRet.status = "failed"
    /\ validate(authRet.new) = ""
    /\ \E stem \in DOMAIN files :
          \E i \in 1..Len(get_list(files[stem], "reset_tokens")) :
              /\ files[stem].reset_tokens[i].token_hash = hash_token(authRet.token)
              /\ files[stem].reset_tokens[i].used
              /\ now <= files[stem].reset_tokens[i].expires_at

\* C24: a successful player_turn lowers the stamina by exactly the action's
\* stamina cost and the mana by exactly its mana cost, once; a player_turn
\* whose action is not executed debits nothing.
C24_DebitOnlyWhenExecuted ==
    [][ret'.op = "player_turn" =>
        IF ret'.status = "ok"
        THEN \E a \in AllActions :
                /\ a.name = ret'.detail
                /\ player'.current_stamina = player.current_stamina - a.stamina_cost
                /\ player'.current_mana = player.current_mana - a.mana_cost
        ELSE /\ player'.current_stamina = player.current_stamina
             /\ player'.current_mana = player.current_mana]_vars

\* C25: enemy_turn on an enemy that is already defeated returns a skipped
\* result and changes nothing: no effect of that enemy is ticked and the
\* player is not damaged.
C25_DefeatedEnemySkipped ==
    [][(/\ ret'.op = "enemy_turn"
        /\ ret'.target \in 0..(Len(enemies) - 1)
        /\ enemies[ret'.target + 1].current_health <= 0)
       => (ret'.status = "skipped" /\ UNCHANGED battleState)]_vars

\* a skipped turn of a defeated enemy that still holds an effect
C25_Witness ==
    /\ ret.op = "enemy_turn"
    /\ ret.status = "skipped"
    /\ enemies[ret.target + 1].current_health = 0
    /\ enemies[ret.target + 1].active_effects # {}

\* C27: tick_effects lowers the duration of every active effect by exactly 1,
\* removes exactly the effects whose duration thereby reaches 0, and returns
\* the deltas of all effects that were active before the call, the removed
\* ones included; so an effect of duration d lasts exactly d calls.
C27_TickLowersByOne ==
    [][emRet'.op = "tick_effects" =>
        /\ \A e \in em :
              IF e.duration > 1
              THEN StatusEffect(e.effect_type, e.duration - 1, e.potency) \in em'
              ELSE \A f \in em' : f.effect_type # e.effect_type
        /\ \A f \in em' : \E e \in em :
              /\ e.effect_type = f.effect_type
              /\ e.potency = f.potency
              /\ e.duration = f.duration + 1
        /\ \A e \in em :
              /\ e.effect_type \in {"bleeding", "burning", "poisoned"} =>
                    [effect_type |-> e.effect_type, delta |-> e.potency] \in emRet'.results
              /\ e.effect_type = "regenerating" =>
                    [effect_type |-> e.effect_type, delta |-> 0 - e.potency]
                        \in emRet'.results
        /\ \A r \in emRet'.results : \E e \in em : e.effect_type = r.effect_type]_vars

\* the last tick of a bleeding: it is gone and its potency was reported
C27_Witness ==
    /\ emRet.op = "tick_effects"
    /\ \E r \in emRet.results : r.effect_type = "bleeding" /\ r.delta > 0
    /\ \A e \in em : e.effect_type # "bleeding"

\* C28: in enemy_turn a hit of damage d takes floor(d / 2) from the player's
\* health when the player is defending and d otherwise (health not below 0);
\* a miss, a defend and an incapacitated outcome leave the health unchanged.
C28_DefendingHalves ==
    [][(ret'.op = "enemy_turn" /\ ret'.status = "ok") =>
        IF ret'.hit /\ ret'.damage > 0
        THEN LET taken == IF player_defending THEN ret'.damage \div 2 ELSE ret'.damage
             IN  player'.current_health =
                    (IF player.current_health > taken
                     THEN player.current_health - taken ELSE 0)
        ELSE player'.current_health = player.current_health]_vars

\* a hit of odd damage on a defending player, who survives it
C28_Witness ==
    /\ ret.op = "enemy_turn"
    /\ ret.status = "ok"
    /\ ret.hit
    /\ ret.damage % 2 = 1
    /\ player_defending
    /\ player.current_health > 0

\* C26: enemy_turn on a living enemy ticks that enemy's effects and applies
\* the net delta to its health before it acts: every active bleeding, burning
\* or poison effect lowers the health by its potency and an active
\* regenerating effect raises it by its potency, not above max_health.
C26_TickAppliesNetDelta ==
    [][(/\ ret'.op = "enemy_turn"
        /\ ret'.status = "ok"
        /\ enemies[ret'.target + 1].current_health > 0)
       => LET e == enemies[ret'.target + 1]
              dots == SumOver([x \in e.active_effects |-> x.potency],
                              {x \in e.active_effects : x.effect_type \in DotTypes})
              regen == SumOver([x \in e.active_effects |-> x.potency],
                               {x \in e.active_effects : x.effect_type = "regenerating"})
          IN  enemies'[ret'.target + 1].current_health =
                  Min(e.max_health, Max(0, e.current_health - dots + regen))]_vars

\* C29: the game loop runs the enemy turns and next_turn only after a player
\* turn that succeeded (or a flee that failed): when player_turn returned an
\* error the loop is back at its prompt, with no enemy turn and no next_turn
\* pending for that input.
C29_ErrorEndsInput ==
    (ret.op = "player_turn" /\ ret.status = "error") => loop.pc = "command"

\* C30: choose_action returns "incapacitated" exactly when the enemy has
\* stunned, frozen or paralyzed active; otherwise it returns one of defend,
\* attack, light_attack, heavy_attack and special, and special only for an
\* enemy with abilities. execute_action handles the action returned: its
\* result carries that action and never "unknown".
C30_ChosenActionHandled ==
    /\ ret.op = "choose_action" =>
          /\ ret.detail = "incapacitated" <=>
                \E x \in enemies[1].active_effects :
                    x.effect_type \in {"stunned", "frozen", "paralyzed"}
          /\ ret.detail \in {"incapacitated", "defend", "attack", "light_attack",
                             "heavy_attack", "special"}
          /\ ret.detail = "special" => enemies[1].has_abilities
    /\ ret.op = "execute_action" =>
          /\ ret.detail # "unknown"
          /\ ret.detail = ret.effect

\* a paralyzed enemy: "incapacitated" was chosen and executed
C30_Witness ==
    /\ ret.op = "execute_action"
    /\ ret.detail = "incapacitated"
    /\ \E x \in enemies[1].active_effects : x.effect_type = "paralyzed"
    /\ \A x \in enemies[1].active_effects : x.effect_type \notin {"stunned", "frozen"}

\* C31: a secondary effect is applied only after a hit and by its own draw:
\* Power Strike adds bleeding to its target exactly when it hit and the extra
\* draw is below 0.30, Shield Bash adds stunned exactly when it hit and the
\* extra draw is below 0.50; a miss adds no effect and leaves the target as it
\* was, and no other action adds an effect.
C31_SecondaryEffectAfterHit ==
    [][(ret'.op = "player_turn" /\ ret'.status = "ok") =>
        LET k == ret'.target + 1
            before == enemies[k].active_effects
            after == enemies'[k].active_effects
        IN  /\ ret'.effect = "bleeding" <=>
                  (ret'.detail = "Power Strike" /\ ret'.hit /\ ret'.draw < 30)
            /\ ret'.effect = "stunned" <=>
                  (ret'.detail = "Shield Bash" /\ ret'.hit /\ ret'.draw < 50)
            /\ ret'.effect \in {"", "bleeding", "stunned"}
            /\ after = (CASE ret'.effect = "bleeding" -> add_effect(before, create_bleeding)
                          [] ret'.effect = "stunned" -> add_effect(before, create_stun)
                          [] OTHER -> before)
            /\ \A j \in 1..Len(enemies) :
                  j # k => enemies'[j].active_effects = enemies[j].active_effects]_vars

\* a Power Strike that hit and whose extra draw left the target without bleeding
C31_Witness ==
    /\ ret.op = "player_turn"
    /\ ret.status = "ok"
    /\ ret.detail = "Power Strike"
    /\ ret.hit
    /\ ret.draw >= 30
    /\ enemies[ret.target + 1].active_effects = {}

\* C32 as stated: attempt_flee succeeds exactly when the draw is below
\* clamp(0.5 + 0.05 * (player agility - mean agility of the living enemies),
\* 0.20, 0.90), the mean being the exact one. With n living enemies of agility
\* sum s both sides are multiplied by n.
C32_FleeChanceExactMean ==
    [][(ret'.op = "attempt_flee" /\ Living(enemies) # {}) =>
        LET n == Cardinality(Living(enemies))
            s == SumOver([i \in Living(enemies) |-> enemies[i].agility], Living(enemies))
            chance_n == Max(20 * n, Min(90 * n, 50 * n + 5 * (n * player.agility - s)))
        IN  ret'.detail = "success" <=> n * ret'.draw < chance_n]_vars

\* C32, amended: attempt_flee succeeds exactly when the draw is below
\* clamp(0.5 + 0.05 * (player agility - m), 0.20, 0.90), where m is the mean
\* agility of the enemies alive at that moment truncated to a whole number;
\* for player agility 20 against one enemy of agility 10 the chance is 0.90.
C32_FleeChanceTruncatedMean ==
    [][(ret'.op = "attempt_flee" /\ Living(enemies) # {}) =>
        LET n == Cardinality(Living(enemies))
            s == SumOver([i \in Living(enemies) |-> enemies[i].agility], Living(enemies))
            m == s \div n
            chance == Max(20, Min(90, 50 + 5 * (player.agility - m)))
        IN  /\ ret'.detail = "success" <=> ret'.draw < chance
            /\ (player.agility = 20 /\ m = 10) => chance = 90]_vars

\* a flee that succeeded against two living enemies of mean agility 7.5 on a
\* draw between the chance for 7.5 and the chance for 7
C32_Witness ==
    /\ ret.op = "attempt_flee"
    /\ ret.detail = "success"
    /\ ret.draw = 63
    /\ player.agility = 10
    /\ Len(enemies) = 2
    /\ Living(enemies) = {1, 2}
    /\ enemies[1].agility + enemies[2].agility = 15

\* C33: a player_turn that executes the Shield action returns a normal result
\* (and leaves the player with an active shielded effect of duration 3 and
\* potency 30, added by the add rule to the player's effect table).
C33_ShieldReturnsResult ==
    (ret.op = "player_turn" /\ ret.effect = "Shield") => ret.status = "ok"

\* C34: after every completed Battle operation, if every enemy has health 0
\* the battle result is not Ongoing; in particular not after an enemy_turn in
\* which the last living enemy died from the tick of its effects.
C34_AllDefeatedEndsBattle ==
    (\A i \in 1..Len(enemies) : enemies[i].current_health = 0) => result # "ongoing"

\* C35: an enemy whose health the effect tick at the start of its own
\* enemy_turn brings to 0 takes no action in that turn: the call leaves the
\* player's health and the enemy's defending flag as they were.
C35_KilledByTickDoesNotAct ==
    [][(/\ ret'.op = "enemy_turn"
        /\ ret'.status = "ok"
        /\ enemies[ret'.target + 1].current_health > 0
        /\ enemies'[ret'.target + 1].current_health = 0)
       => /\ player'.current_health = player.current_health
          /\ enemies'[ret'.target + 1].is_defending =
                enemies[ret'.target + 1].is_defending]_vars

\* C36: in the enemy phase of a round of the game loop, the check that follows
\* an enemy turn which left the player at health 0 makes the result Defeat and
\* ends the phase, no enemy turn starts with the player at health 0, and no
\* round ends with the player at health 0 and the result still Ongoing.
C36_DefeatEndsEnemyPhase ==
    [][/\ (loop.pc = "died_check" /\ player.current_health = 0) =>
              (result' = "defeat" /\ loop'.pc = "next_turn")
       /\ ret'.op = "enemy_turn" => player.current_health > 0
       /\ (loop'.pc \in {"next_turn", "command", "ended"} /\ player'.current_health = 0)
              => result' = "defeat"]_vars

\* the first of two living enemies killed the player: the result is Defeat and
\* the second enemy did not act
C36_Witness ==
    /\ loop.pc = "next_turn"
    /\ player.current_health = 0
    /\ result = "defeat"
    /\ Len(enemies) = 2
    /\ is_alive(enemies[2])
    /\ Len(round) = 2
    /\ round[2] = Event("enemy_turn", 0)

\* C39: transition_to and go_back change current_state only along the table of
\* allowed transitions or to the same state; a request that is not allowed
\* returns False and leaves current_state, previous_state and state_data as
\* they were; once the state is QUIT neither call leaves it.
C39_OnlyAllowedTransitions ==
    [][smRet'.op \in {"transition_to", "go_back"} =>
        /\ sm'.current_state # sm.current_state =>
              /\ sm'.current_state \in valid_transitions[sm.current_state]
              /\ smRet'.value = TRUE
        /\ (/\ smRet'.arg # sm.current_state
            /\ smRet'.arg \notin valid_transitions[sm.current_state])
              => (smRet'.value = FALSE /\ sm' = sm)
        /\ sm.current_state = "QUIT" => sm'.current_state = "QUIT"]_vars

\* go_back from QUIT to the state before it was refused
C39_Witness ==
    /\ smRet.op = "go_back"
    /\ smRet.value = FALSE
    /\ sm.current_state = "QUIT"
    /\ sm.previous_state \in GameState \ {"QUIT"}

\* C37: when two login calls for the same user with the right password run
\* concurrently, both succeed and both returned tokens are valid sessions
\* once both calls have returned.
C37_ConcurrentLoginsKeepSessions ==
    (\A t \in DOMAIN threads :
        /\ threads[t].op = "login"
        /\ threads[t].pc = "done"
        /\ threads[t].password = "OldPassword123!")
    => \A t \in DOMAIN threads :
          /\ threads[t].status = "ok"
          /\ verify_session(files, threads[t].username, threads[t].token, now)

\* C38: for every interleaving of concurrent create_user calls on one
\* UserStorage at most one call succeeds per username and at most one per
\* email, and the email index maps the email of every call that succeeded to
\* the user that call created.
C38_OneCreationPerNameAndEmail ==
    /\ \A t \in DOMAIN threads : \A u \in DOMAIN threads :
          (/\ t # u
           /\ threads[t].op = "create_user" /\ threads[t].status = "ok"
           /\ threads[u].op = "create_user" /\ threads[u].status = "ok")
          => /\ Lower(threads[t].username) # Lower(threads[u].username)
             /\ Lower(threads[t].email) # Lower(threads[u].email)
    /\ \A t \in DOMAIN threads :
          (threads[t].op = "create_user" /\ threads[t].pc = "done"
              /\ threads[t].status = "ok")
          => /\ Lower(threads[t].email) \in DOMAIN _load_index(files)
             /\ _load_index(files)[Lower(threads[t].email)] = Lower(threads[t].username)

\* two calls for the same username have returned: one created the user, the
\* other one waited for the lock and was refused
C38_Witness ==
    /\ DOMAIN threads = Threads
    /\ \A t \in Threads : threads[t].op = "create_user" /\ threads[t].pc = "done"
    /\ Lower(threads[1].username) = Lower(threads[2].username)
    /\ threads[1].status = "raised"
    /\ threads[1].detail = "Username already exists"
    /\ threads[2].status = "ok"

====
